---- MODULE Spec2Model ----
(***************************************************************************)
(* radiod (ka9q-radio) start-up and orchestration, src/main.c.             *)
(*                                                                         *)
(* The module holds five state machines over groups of variables:          *)
(*   Spec          process_section threads creating channels (registry)    *)
(*   SpecSignal    the signal handlers closedown and verbosity             *)
(*   SpecRtcp      the rtcp_send threads next to closedown                 *)
(*   SpecTemplate  the parameter resolution of Template and chan_template  *)
(*   SpecStartup   loadconfig up to the start of the section threads,      *)
(*                 with setup_hardware                                     *)
(* Each specification leaves the other groups at their idle values.        *)
(***************************************************************************)
EXTENDS Integers, Sequences, FiniteSets, TLC

(***************************************************************************)
(* 32-bit unsigned arithmetic.  A uint32_t is the pair <<hi, lo>> of its   *)
(* 16-bit halves, so that 2^32 - 1 and the wrap to 0 are exact.            *)
(***************************************************************************)
Half == 65536

U32(n) == <<n \div Half, n % Half>>

Zero32 == <<0, 0>>

Max32 == <<Half - 1, Half - 1>>

\* ssrc++ on a uint32_t (main.c:783)
Inc32(x) ==
  IF x[2] = Half - 1 THEN <<(x[1] + 1) % Half, 0>> ELSE <<x[1], x[2] + 1>>

\* ssrc *= 10; ssrc += d on a uint32_t (main.c:772-773)
MulAdd10(x, d) ==
  LET t == x[2] * 10 + d
  IN  <<(x[1] * 10 + t \div Half) % Half, t % Half>>

\* x + n on a uint32_t, for 0 <= n < Half: n increments of ssrc
Add32(x, n) ==
  LET t == x[2] + n
  IN  <<(x[1] + t \div Half) % Half, t % Half>>

(***************************************************************************)
(* Bounds of the model.                                                    *)
(***************************************************************************)
\* frequency tokens in the freq lists of all the sections together
MaxTokens == 3

\* int const max_collisions = 100 (main.c:782)
max_collisions == 100

(***************************************************************************)
(* Configuration inputs of the channel sections.                           *)
(***************************************************************************)
\* The channel sections of the configuration, one startup thread each
\* (main.c:630-643).
Sections == {"s1", "s2"}

\* isdigit(*cp) and *cp - '0' (main.c:771-773)
DigitVal ==
  [c \in {"0", "1", "2", "3", "4", "5", "6", "7", "8", "9"} |->
     CASE c = "0" -> 0 [] c = "1" -> 1 [] c = "2" -> 2 [] c = "3" -> 3
       [] c = "4" -> 4 [] c = "5" -> 5 [] c = "6" -> 6 [] c = "7" -> 7
       [] c = "8" -> 8 [] c = "9" -> 9]

isdigit(c) == c \in DOMAIN DigitVal

\* Generate default ssrc from frequency string (main.c:768-775): the digits
\* of the token accumulate in a uint32_t, every other character is skipped.
RECURSIVE default_ssrc_from(_, _)
default_ssrc_from(tok, acc) ==
  IF tok = << >> THEN acc
  ELSE default_ssrc_from(Tail(tok),
                         IF isdigit(Head(tok))
                           THEN MulAdd10(acc, DigitVal[Head(tok)])
                           ELSE acc)

default_ssrc(tok) == default_ssrc_from(tok, Zero32)

\* A frequency token of a freq/freq0..freq9 list with what parse_frequency
\* returns for it (negative: cannot be parsed), main.c:759-767.
TokenPool ==
  { [chars |-> <<"1", "0", "0">>, f |-> 100],
    [chars |-> <<"4", "2", "9", "4", "9", "6", "7", "2", "9", "5">>, f |-> 4294],
    [chars |-> <<"4", "2", "9", "4", "9", "6", "7", "2", "9", "6">>, f |-> 4294],
    [chars |-> <<"0">>, f |-> 0],
    [chars |-> <<"x", "1">>, f |-> -1] }

\* The section's "ssrc" key: absent, or an integer converted to uint32_t
\* (main.c:776).  The first section may ask for the SSRC at which the
\* dynamic channels start, the second for the reserved SSRC.
SsrcSettings ==
  [s1 |-> { [set |-> FALSE, val |-> Zero32], [set |-> TRUE, val |-> U32(200)] },
   s2 |-> { [set |-> FALSE, val |-> Zero32], [set |-> TRUE, val |-> Zero32] }]

\* ssrc = config_getint(Configtable,sname,"ssrc",ssrc) (main.c:776)
config_getint_ssrc(setting, def) == IF setting.set THEN setting.val ELSE def

(***************************************************************************)
(* The channel registry.  create_chan is not part of main.c; it is         *)
(* modelled from the specification (4.4) over the in-use flag and the SSRC *)
(* that main.c:793-796 says are the active fields of a channel.            *)
(***************************************************************************)
Slots == 1 .. MaxTokens

NoChan == 0

\* First SSRC of the dynamic channels that the status thread (started at
\* main.c:623, before the section threads) has created.
DynBase == U32(200)

\* How many dynamic channels exist when the section threads start: none,
\* or one less than, or as many as, the probes of one frequency entry.
DynamicChannels(cfg) ==
  IF \E t \in Sections : cfg[t].set /\ cfg[t].val = DynBase
    THEN {max_collisions - 1, max_collisions}
    ELSE {0}

FreeChannel == [inuse |-> FALSE, ssrc |-> Zero32, freq |-> 0]

\* struct channel chan_template = {0}; set_defaults(&chan_template)
\* (main.c:683-691): the prototype carries no SSRC of its own.
chan_template == [inuse |-> TRUE, ssrc |-> Zero32, freq |-> 0]

VARIABLES
  Channel_list,  \* the registry: slot -> the active fields of the channel
  dyn_len,       \* number of dynamic channels at DynBase, DynBase+1, ...
  cfg_ssrc,      \* section -> its "ssrc" setting
  SAP_enable,    \* bool SAP_enable
  RTCP_enable,   \* bool RTCP_enable
  Configtable,   \* dictionary *Configtable: loaded, or NULL once freed
  returned,      \* what loadconfig has returned, Unset before it returns
  pc,            \* section thread -> its position in process_section
  ntok,          \* frequency tokens read so far by all the threads
  ssrc,          \* section thread -> local uint32_t ssrc
  probes,        \* section thread -> loop counter i of the probe loop
  freq,          \* section thread -> f of the current token
  chan,          \* section thread -> slot returned by create_chan
  nchans,        \* section thread -> local counter nchans
  Nchans,        \* static int Nchans
  tmpN,          \* section thread -> value of Nchans read by Nchans++
  running,       \* slots whose demodulator start_demod has started
  hist           \* history: per slot the SSRC asked for and registered and
                 \* the calls made for it, per thread the outcome of its
                 \* last frequency entry and the channels created and started

chanVars ==
  <<Channel_list, dyn_len, cfg_ssrc, SAP_enable, RTCP_enable, Configtable, returned, pc, ntok, ssrc, probes, freq, chan,
    nchans, Nchans, tmpN, running, hist>>

(***************************************************************************)
(* The process, the signal handlers and the RTCP senders.                  *)
(***************************************************************************)
VARIABLES
  proc,          \* "running", "exited" (exit/_exit) or "crashed"
  exit_code,     \* the exit status once proc = "exited"
  Verbose,       \* int Verbose
  Stop_transfers,\* volatile bool Stop_transfers
  handlers,      \* stack of the closedown invocations in progress
  trace,         \* history: the steps the closedown invocations have made
  delivered,     \* history: the last signal given to verbosity, and the
                 \* value of Verbose it found
  rtcp_pc,       \* channel -> position of its rtcp_send thread
  rtcp_ssrc,     \* channel -> chan->output.rtp.ssrc
  errors,        \* channel -> chan->output.errors
  rtcp_last      \* history: channel -> what its last loop pass did

procVars == <<proc, exit_code>>

sigVars == <<Verbose, Stop_transfers, handlers, trace, delivered>>

rtcpVars == <<rtcp_pc, rtcp_ssrc, errors, rtcp_last>>

(***************************************************************************)
(* The parameter resolution of Template (loadconfig) and of a section's    *)
(* chan_template (process_section).                                        *)
(***************************************************************************)
VARIABLES
  tpl_pc,           \* position in the resolution
  cfg,              \* the configuration: defaults, [global], the section,
                    \* the preset entry and the preset names
  Template,         \* struct channel Template (the parameters modelled)
  section_template  \* struct channel chan_template of the section

tplVars == <<tpl_pc, cfg, Template, section_template>>

(***************************************************************************)
(* loadconfig and setup_hardware.                                          *)
(***************************************************************************)
VARIABLES
  st_pc,         \* position in loadconfig / setup_hardware
  build,         \* how radiod was compiled: STATIC, NDEBUG
  device,        \* what the driver's setup finds for its device: isreal, spurs
  global_cfg,    \* [global] of the configuration file: does it hold a key
                 \* that is not a known one, and its fft-plan-level
  FFTW_planning_level,  \* int FFTW_planning_level
  reported,      \* history: the errors written to stderr
  hw,            \* history: what dlopen and dlsym have answered, what the
                 \* driver's setup and start have returned, and what
                 \* output_mcast has returned
  Frontend,      \* struct frontend: start, tune, samprate, L, M
  hw_r,          \* return value of setup_hardware, NoReturn before
  Blocktime,     \* float Blocktime, in tenths of a millisecond
  Overlap,       \* int Overlap
  Output_fd,     \* int Output_fd
  Output_fd0,    \* int Output_fd0
  Ctl_fd,        \* int Ctl_fd
  Status_thread, \* has pthread_create(&Status_thread, ...) been called
  startup_threads, \* the sections whose process_section thread was created
  Channel_idle_timeout, \* int Channel_idle_timeout, in blocks
  Template_lifetime,    \* Template.lifetime, in blocks
  dynamic        \* the channel radio_status has created on a command

startVars ==
  <<st_pc, build, device, global_cfg, FFTW_planning_level, reported, hw, Frontend, hw_r, Blocktime, Overlap, Output_fd,
    Output_fd0, Ctl_fd, Status_thread, startup_threads,
                 Channel_idle_timeout, Template_lifetime, dynamic>>

vars == <<chanVars, procVars, sigVars, rtcpVars, tplVars, startVars>>

----------------------------------------------------------------------------
DynInUse(x) ==
  x[1] = DynBase[1] /\ DynBase[2] <= x[2] /\ x[2] < DynBase[2] + dyn_len

\* lookup(ssrc): is a channel registered under this SSRC
InUse(list, x) ==
  DynInUse(x) \/ \E k \in Slots : list[k].inuse /\ list[k].ssrc = x

FirstFree(list) ==
  LET free == {k \in Slots : ~list[k].inuse}
  IN  IF free = {} THEN NoChan
      ELSE CHOOSE k \in free : \A j \in free : k <= j

\* create_chan(ssrc) -> channel | nil: the slot it registers, or NoChan
create_chan(list, x) == IF InUse(list, x) THEN NoChan ELSE FirstFree(list)

ChanInit ==
  /\ Channel_list = [k \in Slots |-> FreeChannel]
  /\ cfg_ssrc \in {c \in [Sections -> UNION {SsrcSettings[t] : t \in Sections}] :
                     \A t \in Sections : c[t] \in SsrcSettings[t]}
  /\ dyn_len \in DynamicChannels(cfg_ssrc)
  /\ Configtable = "loaded"
  /\ returned = -1
  /\ SAP_enable \in BOOLEAN
  /\ RTCP_enable \in (IF SAP_enable THEN {TRUE} ELSE BOOLEAN)
  /\ pc = [t \in Sections |-> "token"]
  /\ ntok = 0
  /\ ssrc = [t \in Sections |-> Zero32]
  /\ probes = [t \in Sections |-> 0]
  /\ freq = [t \in Sections |-> 0]
  /\ chan = [t \in Sections |-> NoChan]
  /\ nchans = [t \in Sections |-> 0]
  /\ Nchans = 0
  /\ tmpN = [t \in Sections |-> 0]
  /\ running = {}
  /\ hist = [asked |-> [k \in Slots |-> Zero32],
             registered |-> [k \in Slots |-> Zero32],
             first |-> [t \in Sections |-> Zero32],
             calls |-> [t \in Sections |-> 0],
             last |-> [t \in Sections |-> "none"],
             steps |-> [k \in Slots |-> <<>>],
             created |-> [t \in Sections |-> 0],
             started |-> [t \in Sections |-> 0]]

----------------------------------------------------------------------------
(***************************************************************************)
(* process_section, the loop over the frequency tokens (main.c:745-822).   *)
(***************************************************************************)
\* The initial SSRC of a token: its digits, overridden by the "ssrc" key
\* (main.c:768-776).
initial_ssrc(t, tok) == config_getint_ssrc(cfg_ssrc[t], default_ssrc(tok.chars))

\* if(f < 0){ "can't parse frequency"; continue; }  (main.c:763-767)
BadFrequency(t) ==
  /\ pc[t] = "token" /\ ntok < MaxTokens
  /\ \E tok \in TokenPool :
       /\ tok.f < 0
       /\ ntok' = ntok + 1
       /\ hist' = [hist EXCEPT !.last[t] = "skipped"]
  /\ UNCHANGED <<Channel_list, dyn_len, cfg_ssrc, SAP_enable, RTCP_enable, Configtable, returned, pc, ssrc, probes, freq,
                 chan, nchans, Nchans, tmpN, running>>
  /\ UNCHANGED <<procVars, sigVars, rtcpVars, tplVars, startVars>>

\* if(ssrc == 0) continue; // Reserved ssrc  (main.c:777-778)
ReservedSsrc(t) ==
  /\ pc[t] = "token" /\ ntok < MaxTokens
  /\ \E tok \in TokenPool :
       /\ tok.f >= 0
       /\ initial_ssrc(t, tok) = Zero32
       /\ ntok' = ntok + 1
       /\ hist' = [hist EXCEPT !.last[t] = "skipped"]
  /\ UNCHANGED <<Channel_list, dyn_len, cfg_ssrc, SAP_enable, RTCP_enable, Configtable, returned, pc, ssrc, probes, freq,
                 chan, nchans, Nchans, tmpN, running>>
  /\ UNCHANGED <<procVars, sigVars, rtcpVars, tplVars, startVars>>

\* A token with a frequency and a nonzero SSRC enters the probe loop with
\* chan = NULL and i = 0 (main.c:780-783).
BeginProbe(t) ==
  /\ pc[t] = "token" /\ ntok < MaxTokens
  /\ \E tok \in TokenPool :
       /\ tok.f >= 0
       /\ initial_ssrc(t, tok) # Zero32
       /\ ntok' = ntok + 1
       /\ ssrc' = [ssrc EXCEPT ![t] = initial_ssrc(t, tok)]
       /\ freq' = [freq EXCEPT ![t] = tok.f]
       /\ hist' = [hist EXCEPT !.first[t] = initial_ssrc(t, tok),
                               !.calls[t] = 0,
                               !.last[t] = "probing"]
  /\ probes' = [probes EXCEPT ![t] = 0]
  /\ chan' = [chan EXCEPT ![t] = NoChan]
  /\ pc' = [pc EXCEPT ![t] = "probe"]
  /\ UNCHANGED <<Channel_list, dyn_len, cfg_ssrc, SAP_enable, RTCP_enable, Configtable, returned, nchans, Nchans, tmpN,
                 running>>
  /\ UNCHANGED <<procVars, sigVars, rtcpVars, tplVars, startVars>>

\* continue / the end of the token loop's body (main.c:790, 819): the
\* variables local to the body (ssrc, chan, i) go out of scope.
EndToken(t) ==
  /\ pc' = [pc EXCEPT ![t] = "token"]
  /\ ssrc' = [ssrc EXCEPT ![t] = Zero32]
  /\ probes' = [probes EXCEPT ![t] = 0]
  /\ freq' = [freq EXCEPT ![t] = 0]
  /\ chan' = [chan EXCEPT ![t] = NoChan]
  /\ tmpN' = [tmpN EXCEPT ![t] = 0]

\* A probe loop that tests i <= max_collisions.
LoopContinuesOffByOne(i) == i + 1 <= max_collisions

\* The loop test after i++ (main.c:783): another probe follows.
LoopContinues(i) == i + 1 < max_collisions

\* chan = create_chan(ssrc); if(chan != NULL) break;  (main.c:784-786)
ProbeCreated(t) ==
  /\ pc[t] = "probe"
  /\ LET c == create_chan(Channel_list, ssrc[t])
     IN  /\ c # NoChan
         /\ Channel_list' =
              [Channel_list EXCEPT ![c] = [inuse |-> TRUE, ssrc |-> ssrc[t],
                                           freq |-> 0]]
         /\ chan' = [chan EXCEPT ![t] = c]
         /\ hist' = [hist EXCEPT !.asked[c] = hist.first[t],
                                 !.registered[c] = ssrc[t],
                                 !.calls[t] = @ + 1,
                                 !.steps[c] = Append(@, "create_chan"),
                                 !.created[t] = @ + 1]
  /\ pc' = [pc EXCEPT ![t] = "copy"]
  /\ UNCHANGED <<dyn_len, cfg_ssrc, SAP_enable, RTCP_enable, Configtable, returned, ntok, ssrc, probes, freq, nchans, Nchans,
                 tmpN, running>>
  /\ UNCHANGED <<procVars, sigVars, rtcpVars, tplVars, startVars>>

\* create_chan returned NULL: i++, ssrc++ and the next probe (main.c:783)
ProbeCollision(t) ==
  /\ pc[t] = "probe"
  /\ create_chan(Channel_list, ssrc[t]) = NoChan
  /\ LoopContinues(probes[t])
  /\ probes' = [probes EXCEPT ![t] = @ + 1]
  /\ ssrc' = [ssrc EXCEPT ![t] = Inc32(@)]
  /\ hist' = [hist EXCEPT !.calls[t] = @ + 1]
  /\ UNCHANGED <<Channel_list, dyn_len, cfg_ssrc, SAP_enable, RTCP_enable, Configtable, returned, pc, ntok, freq, chan,
                 nchans, Nchans, tmpN, running>>
  /\ UNCHANGED <<procVars, sigVars, rtcpVars, tplVars, startVars>>

\* The last probe collided too: the loop ends with chan == NULL, the
\* warning is printed and the token loop continues (main.c:788-791).
ProbeExhausted(t) ==
  /\ pc[t] = "probe"
  /\ create_chan(Channel_list, ssrc[t]) = NoChan
  /\ ~LoopContinues(probes[t])
  /\ hist' = [hist EXCEPT !.calls[t] = @ + 1, !.last[t] = "exhausted"]
  /\ EndToken(t)
  /\ UNCHANGED <<Channel_list, dyn_len, cfg_ssrc, SAP_enable, RTCP_enable, Configtable, returned, ntok, nchans, Nchans,
                 running>>
  /\ UNCHANGED <<procVars, sigVars, rtcpVars, tplVars, startVars>>

\* *chan = chan_template;  (main.c:795)
TemplateCopy(t) ==
  /\ pc[t] = "copy"
  /\ Channel_list' = [Channel_list EXCEPT ![chan[t]] = chan_template]
  /\ pc' = [pc EXCEPT ![t] = "restore"]
  /\ hist' = [hist EXCEPT !.steps[chan[t]] = Append(@, "copy")]
  /\ UNCHANGED <<dyn_len, cfg_ssrc, SAP_enable, RTCP_enable, Configtable, returned, ntok, ssrc, probes, freq, chan, nchans,
                 Nchans, tmpN, running>>
  /\ UNCHANGED <<procVars, sigVars, rtcpVars, tplVars, startVars>>

\* chan->output.rtp.ssrc = ssrc; // restore after template copy (main.c:796)
RestoreSsrc(t) ==
  /\ pc[t] = "restore"
  /\ Channel_list' = [Channel_list EXCEPT ![chan[t]].ssrc = ssrc[t]]
  /\ pc' = [pc EXCEPT ![t] = "set_freq"]
  /\ hist' = [hist EXCEPT !.steps[chan[t]] = Append(@, "restore")]
  /\ UNCHANGED <<dyn_len, cfg_ssrc, SAP_enable, RTCP_enable, Configtable, returned, ntok, ssrc, probes, freq, chan, nchans,
                 Nchans, tmpN, running>>
  /\ UNCHANGED <<procVars, sigVars, rtcpVars, tplVars, startVars>>

\* set_freq(chan,f);  (main.c:798)
SetFreq(t) ==
  /\ pc[t] = "set_freq"
  /\ Channel_list' = [Channel_list EXCEPT ![chan[t]].freq = freq[t]]
  /\ pc' = [pc EXCEPT ![t] = "start_demod"]
  /\ hist' = [hist EXCEPT !.steps[chan[t]] = Append(@, "set_freq")]
  /\ UNCHANGED <<dyn_len, cfg_ssrc, SAP_enable, RTCP_enable, Configtable, returned, ntok, ssrc, probes, freq, chan, nchans,
                 Nchans, tmpN, running>>
  /\ UNCHANGED <<procVars, sigVars, rtcpVars, tplVars, startVars>>

\* A process_section that goes on to the counters without start_demod.
StartDemodSkipped(t) ==
  /\ pc[t] = "start_demod"
  /\ pc' = [pc EXCEPT ![t] = "count"]
  /\ UNCHANGED <<Channel_list, dyn_len, cfg_ssrc, SAP_enable, RTCP_enable, Configtable, returned, ntok, ssrc,
                 probes, freq, chan, nchans, Nchans, tmpN, running, hist>>
  /\ UNCHANGED <<procVars, sigVars, rtcpVars, tplVars, startVars>>

\* start_demod(chan);  (main.c:799)
StartDemod(t) ==
  /\ pc[t] = "start_demod"
  /\ running' = running \cup {chan[t]}
  /\ pc' = [pc EXCEPT ![t] = "count"]
  /\ hist' = [hist EXCEPT !.steps[chan[t]] = Append(@, "start_demod"),
                          !.started[t] = @ + 1]
  /\ UNCHANGED <<Channel_list, dyn_len, cfg_ssrc, SAP_enable, RTCP_enable, Configtable, returned, ntok, ssrc, probes, freq,
                 chan, nchans, Nchans, tmpN>>
  /\ UNCHANGED <<procVars, sigVars, rtcpVars, tplVars, startVars>>

\* nchans++; and the read of Nchans++ (main.c:800-801).  Nchans is a plain
\* int shared by the section threads, so its increment is a read and a
\* write.
CountRead(t) ==
  /\ pc[t] = "count"
  /\ nchans' = [nchans EXCEPT ![t] = @ + 1]
  /\ tmpN' = [tmpN EXCEPT ![t] = Nchans]
  /\ pc' = [pc EXCEPT ![t] = "count_write"]
  /\ UNCHANGED <<Channel_list, dyn_len, cfg_ssrc, SAP_enable, RTCP_enable, Configtable, returned, ntok, ssrc, probes, freq,
                 chan, Nchans, running, hist>>
  /\ UNCHANGED <<procVars, sigVars, rtcpVars, tplVars, startVars>>

\* the threads started for a channel: sap_send if(SAP_enable), then
\* rtcp_send if(RTCP_enable) (main.c:803-818)
sender_threads ==
  (IF SAP_enable THEN <<"sap_send">> ELSE <<>>) \o
  (IF RTCP_enable THEN <<"rtcp_send">> ELSE <<>>)

\* the write of Nchans++ (main.c:801); the sender threads are started
\* (main.c:803-818); the token is done (main.c:819)
CountWrite(t) ==
  /\ pc[t] = "count_write"
  /\ Nchans' = tmpN[t] + 1
  /\ hist' = [hist EXCEPT !.first[t] = Zero32, !.calls[t] = 0,
                          !.last[t] = "started",
                          !.steps[chan[t]] = @ \o sender_threads]
  /\ EndToken(t)
  /\ UNCHANGED <<Channel_list, dyn_len, cfg_ssrc, SAP_enable, RTCP_enable, Configtable, returned, ntok, nchans, running>>
  /\ UNCHANGED <<procVars, sigVars, rtcpVars, tplVars, startVars>>

\* No further token in freq, freq0 .. freq9: "[%s] %d channels started"
\* and return (main.c:823-824).
EndSection(t) ==
  /\ pc[t] = "token"
  /\ pc' = [pc EXCEPT ![t] = "done"]
  /\ UNCHANGED <<Channel_list, dyn_len, cfg_ssrc, SAP_enable, RTCP_enable, Configtable, returned, ntok, ssrc, probes, freq,
                 chan, nchans, Nchans, tmpN, running, hist>>
  /\ UNCHANGED <<procVars, sigVars, rtcpVars, tplVars, startVars>>

process_section(t) ==
  \/ BadFrequency(t)
  \/ ReservedSsrc(t)
  \/ BeginProbe(t)
  \/ ProbeCreated(t)
  \/ ProbeCollision(t)
  \/ ProbeExhausted(t)
  \/ TemplateCopy(t)
  \/ RestoreSsrc(t)
  \/ SetFreq(t)
  \/ StartDemod(t)
  \/ CountRead(t)
  \/ CountWrite(t)
  \/ EndSection(t)

----------------------------------------------------------------------------
(***************************************************************************)
(* Values of the groups of variables a specification does not move.        *)
(***************************************************************************)
\* exit status not yet set
NoCode == -1

\* a NULL pointer (char const *, function pointer)
NULL == "NULL"

\* a key the configuration does not hold
Unset == -1

\* setup_hardware has not returned
NoReturn == "none"

\* channels for which process_section starts rtcp_send (main.c:812-818)
RtcpChannels == {"chan1", "chan2"}

ChanIdle ==
  /\ Channel_list = [k \in Slots |-> FreeChannel]
  /\ cfg_ssrc = [t \in Sections |-> [set |-> FALSE, val |-> Zero32]]
  /\ dyn_len = 0
  /\ SAP_enable = FALSE
  /\ RTCP_enable = FALSE
  /\ Configtable = "NULL"
  /\ returned = -1
  /\ pc = [t \in Sections |-> "done"]
  /\ ntok = 0
  /\ ssrc = [t \in Sections |-> Zero32]
  /\ probes = [t \in Sections |-> 0]
  /\ freq = [t \in Sections |-> 0]
  /\ chan = [t \in Sections |-> NoChan]
  /\ nchans = [t \in Sections |-> 0]
  /\ Nchans = 0
  /\ tmpN = [t \in Sections |-> 0]
  /\ running = {}
  /\ hist = [asked |-> [k \in Slots |-> Zero32],
             registered |-> [k \in Slots |-> Zero32],
             first |-> [t \in Sections |-> Zero32],
             calls |-> [t \in Sections |-> 0],
             last |-> [t \in Sections |-> "none"],
             steps |-> [k \in Slots |-> <<>>],
             created |-> [t \in Sections |-> 0],
             started |-> [t \in Sections |-> 0]]

ProcIdle ==
  /\ proc = "running"
  /\ exit_code = NoCode

SignalIdle ==
  /\ Verbose = 0
  /\ Stop_transfers = FALSE
  /\ handlers = <<>>
  /\ trace = <<>>
  /\ delivered = [sig |-> "none", before |-> 0]

RtcpIdle ==
  /\ rtcp_pc = [c \in RtcpChannels |-> "idle"]
  /\ rtcp_ssrc = [c \in RtcpChannels |-> Zero32]
  /\ errors = [c \in RtcpChannels |-> 0]
  /\ rtcp_last = [c \in RtcpChannels |-> "none"]

TemplateIdle ==
  /\ tpl_pc = "idle"
  /\ cfg = NULL
  /\ Template = NULL
  /\ section_template = NULL

StartupIdle ==
  /\ st_pc = "idle"
  /\ build = NULL
  /\ global_cfg = NULL
  /\ device = NULL
  /\ FFTW_planning_level = "FFTW_PATIENT"
  /\ reported = {}
  /\ hw = NULL
  /\ Frontend = NULL
  /\ hw_r = NoReturn
  /\ Blocktime = 0
  /\ Overlap = 0
  /\ Output_fd = -1
  /\ Output_fd0 = -1
  /\ Ctl_fd = -1
  /\ Status_thread = FALSE
  /\ startup_threads = {}
  /\ Channel_idle_timeout = 0
  /\ Template_lifetime = 0
  /\ dynamic = NULL

----------------------------------------------------------------------------
Init == ChanInit /\ ProcIdle /\ SignalIdle /\ RtcpIdle /\ TemplateIdle /\ StartupIdle

\* pthread_join of every section thread has returned;
\* iniparser_freedict(Configtable); Configtable = NULL; return Nchans
\* (main.c:644-653)
loadconfig_return ==
  /\ \A t \in Sections : pc[t] = "done"
  /\ returned = Unset
  /\ Configtable' = NULL
  /\ returned' = Nchans
  /\ UNCHANGED <<Channel_list, dyn_len, cfg_ssrc, SAP_enable, RTCP_enable, pc, ntok, ssrc,
                 probes, freq, chan, nchans, Nchans, tmpN, running, hist>>
  /\ UNCHANGED <<procVars, sigVars, rtcpVars, tplVars, startVars>>

Next ==
  \/ \E t \in Sections : process_section(t)
  \/ loadconfig_return

Spec == Init /\ [][Next]_vars

----------------------------------------------------------------------------
(***************************************************************************)
(* Properties of channel creation, checked under Spec.                     *)
(***************************************************************************)
AllDone == \A t \in Sections : pc[t] = "done"

\* The position of a registered SSRC in the probe sequence of its entry.
ProbeOffset(k) ==
  CHOOSE j \in 0 .. (max_collisions - 1) :
    Add32(hist.asked[k], j) = hist.registered[k]

\* C1: at every instant at most one active channel exists per SSRC: of the
\* create_chan calls with one SSRC exactly one returns a channel, and no
\* two channels started by process_section hold the same SSRC.
C1_OneChannelPerSsrc ==
  \A a, b \in Slots :
    (a # b /\ Channel_list[a].inuse /\ Channel_list[b].inuse) =>
      /\ hist.registered[a] # hist.registered[b]
      /\ (a \in running /\ b \in running) =>
            Channel_list[a].ssrc # Channel_list[b].ssrc

\* C2: between create_chan returning and start_demod the registered
\* channel always shows the SSRC and the in-use flag that create_chan
\* registered: no other thread can see it partially constructed.
C2_NoPartialChannel ==
  \A t \in Sections :
    pc[t] \in {"copy", "restore", "set_freq", "start_demod"} =>
      /\ Channel_list[chan[t]].inuse
      /\ Channel_list[chan[t]].ssrc = hist.registered[chan[t]]

\* C3: once the sections are processed, every started channel holds the
\* SSRC create_chan registered it under, that SSRC is the first of the
\* probe sequence of its entry that no other channel holds, and two entries
\* with the same initial SSRC are registered at different SSRCs (s, s+1).
C3_CollisionProbing ==
  AllDone =>
    \A a \in running :
      /\ Channel_list[a].ssrc = hist.registered[a]
      /\ \A j \in 0 .. (ProbeOffset(a) - 1) :
           InUse(Channel_list, Add32(hist.asked[a], j))
      /\ \A b \in running \ {a} :
           hist.asked[a] = hist.asked[b] =>
             Channel_list[a].ssrc # Channel_list[b].ssrc

\* C4: an entry calls create_chan at most max_collisions times, on
\* successive SSRCs; when the last probe collides too the step only warns:
\* the registry, the started channels and the counters nchans and Nchans
\* are unchanged and the thread is back at the next frequency token.
C4_ProbeLimit ==
  /\ [](\A t \in Sections :
          /\ hist.calls[t] <= max_collisions
          /\ pc[t] = "probe" =>
                /\ hist.calls[t] = probes[t]
                /\ probes[t] < max_collisions
                /\ ssrc[t] = Add32(hist.first[t], probes[t]))
  /\ [][\A t \in Sections :
          (pc[t] = "probe" /\ pc'[t] \notin {"probe", "copy"}) =>
            /\ hist'.calls[t] = max_collisions
            /\ hist'.last[t] = "exhausted"
            /\ pc'[t] = "token"
            /\ Channel_list' = Channel_list
            /\ running' = running
            /\ nchans' = nchans
            /\ Nchans' = Nchans]_vars

\* A thread has used up its probes and is back at the token loop.
C4_Witness ==
  \E t \in Sections :
    /\ pc[t] = "token"
    /\ hist.last[t] = "exhausted"
    /\ hist.calls[t] = max_collisions
    /\ InUse(Channel_list, hist.first[t])

\* C5: SSRC 0 is never passed to create_chan and no started channel has
\* SSRC 0.
C5_NonzeroSsrc ==
  /\ \A t \in Sections : pc[t] = "probe" => ssrc[t] # Zero32
  /\ \A k \in running : Channel_list[k].ssrc # Zero32

----------------------------------------------------------------------------
(***************************************************************************)
(* The signal handlers (main.c:231-237, 1050-1068).                        *)
(*                                                                         *)
(* closedown runs in steps: another terminating signal may arrive while an *)
(* invocation is in progress (signal() blocks only the signal being        *)
(* handled), and then the new invocation runs on top of the suspended one. *)
(* sleep(1) is one step, the wait of one second.  verbosity is one step.   *)
(***************************************************************************)
MaxVerbose == 3           \* range of Verbose explored
MaxErrors == 2            \* failed sends counted per channel

TermSignals == {"SIGINT", "SIGQUIT", "SIGTERM"}

UsrSignals == {"SIGUSR1", "SIGUSR2"}

\* sysexits.h
EX_OK == 0

EX_USAGE == 64

EX_NOINPUT == 66

EX_NOHOST == 68

EX_UNAVAILABLE == 69

EX_SOFTWARE == 70

closedown_status_software(a) == EX_SOFTWARE

\* a == SIGTERM ? EX_OK : EX_SOFTWARE
closedown_status(a) == IF a = "SIGTERM" THEN EX_OK ELSE EX_SOFTWARE

verbosity_unfloored(a, v) ==
  IF a = "SIGUSR1" THEN v + 1
  ELSE IF a = "SIGUSR2" THEN v - 1
  ELSE v

\* static void verbosity(int a): the new value of Verbose
verbosity(a, v) ==
  IF a = "SIGUSR1" THEN v + 1
  ELSE IF a = "SIGUSR2" THEN (IF v <= 0 THEN 0 ELSE v - 1)
  ELSE v

\* the closedown invocation that is executing
Active == handlers[Len(handlers)]

InHandler(a) == \E i \in 1 .. Len(handlers) : handlers[i].sig = a

\* Verbose = config_getint(Configtable,GLOBAL,"verbose",Verbose): any int,
\* negative ones included
SignalInit ==
  /\ Verbose \in (0 - MaxVerbose) .. MaxVerbose
  /\ Stop_transfers = FALSE
  /\ handlers = <<>>
  /\ trace = <<>>
  /\ delivered = [sig |-> "none", before |-> 0]

\* SIGINT, SIGQUIT or SIGTERM is delivered: closedown(a) is entered
DeliverTerm(a) ==
  /\ proc = "running"
  /\ ~InHandler(a)
  /\ handlers' = Append(handlers, [sig |-> a, pc |-> "write"])
  /\ UNCHANGED <<procVars, Verbose, Stop_transfers, trace, delivered>>
  /\ UNCHANGED <<chanVars, rtcpVars, tplVars, startVars>>

closedown_step(from, to) ==
  /\ proc = "running"
  /\ handlers # <<>>
  /\ Active.pc = from
  /\ handlers' = [handlers EXCEPT ![Len(handlers)].pc = to]
  /\ trace' = Append(trace, <<Active.sig, from>>)
  /\ UNCHANGED <<Verbose, delivered>>

\* write(1,message,strlen(message))
closedown_write ==
  /\ closedown_step("write", "Stop_transfers")
  /\ UNCHANGED <<procVars, Stop_transfers>>
  /\ UNCHANGED <<chanVars, rtcpVars, tplVars, startVars>>

\* Stop_transfers = true
closedown_stop ==
  /\ closedown_step("Stop_transfers", "sleep")
  /\ Stop_transfers' = TRUE
  /\ UNCHANGED procVars
  /\ UNCHANGED <<chanVars, rtcpVars, tplVars, startVars>>

\* sleep(1)
closedown_sleep ==
  /\ closedown_step("sleep", "_exit")
  /\ UNCHANGED <<procVars, Stop_transfers>>
  /\ UNCHANGED <<chanVars, rtcpVars, tplVars, startVars>>

\* _exit(a == SIGTERM ? EX_OK : EX_SOFTWARE)
closedown_exit ==
  /\ closedown_step("_exit", "exited")
  /\ proc' = "exited"
  /\ exit_code' = closedown_status(Active.sig)
  /\ UNCHANGED Stop_transfers
  /\ UNCHANGED <<chanVars, rtcpVars, tplVars, startVars>>

closedown ==
  \/ closedown_write
  \/ closedown_stop
  \/ closedown_sleep
  \/ closedown_exit

\* SIGUSR1 or SIGUSR2 is delivered: verbosity(a) runs
DeliverUsr(a) ==
  /\ proc = "running"
  /\ verbosity(a, Verbose) <= MaxVerbose
  /\ Verbose' = verbosity(a, Verbose)
  /\ delivered' = [sig |-> a, before |-> Verbose]
  /\ UNCHANGED <<procVars, Stop_transfers, handlers, trace>>
  /\ UNCHANGED <<chanVars, rtcpVars, tplVars, startVars>>

InitSignal ==
  /\ SignalInit
  /\ ProcIdle /\ ChanIdle /\ RtcpIdle /\ TemplateIdle /\ StartupIdle

NextSignal ==
  \/ \E a \in TermSignals : DeliverTerm(a)
  \/ closedown
  \/ \E a \in UsrSignals : DeliverUsr(a)

SpecSignal == InitSignal /\ [][NextSignal]_vars

----------------------------------------------------------------------------
(***************************************************************************)
(* rtcp_send (main.c:980-1049), one thread per channel, next to closedown. *)
(***************************************************************************)
\* chan->output.rtp.ssrc when the thread runs: set, or still 0
RtcpInit ==
  /\ rtcp_pc = [c \in RtcpChannels |-> "idle"]
  /\ rtcp_ssrc \in [RtcpChannels -> {Zero32, U32(100)}]
  /\ errors = [c \in RtcpChannels |-> 0]
  /\ rtcp_last = [c \in RtcpChannels |-> "none"]

\* pthread_create(&chan->rtcp.thread,NULL,rtcp_send,chan); chan != NULL
rtcp_start(c) ==
  /\ proc = "running"
  /\ rtcp_pc[c] = "idle"
  /\ rtcp_pc' = [rtcp_pc EXCEPT ![c] = "loop"]
  /\ UNCHANGED <<rtcp_ssrc, errors, rtcp_last>>
  /\ UNCHANGED <<chanVars, procVars, sigVars, tplVars, startVars>>

\* if(chan->output.rtp.ssrc == 0) goto done
rtcp_no_ssrc(c) ==
  /\ proc = "running"
  /\ rtcp_pc[c] = "loop"
  /\ rtcp_ssrc[c] = Zero32
  /\ rtcp_pc' = [rtcp_pc EXCEPT ![c] = "sleep"]
  /\ rtcp_last' = [rtcp_last EXCEPT ![c] = "no ssrc"]
  /\ UNCHANGED <<rtcp_ssrc, errors>>
  /\ UNCHANGED <<chanVars, procVars, sigVars, tplVars, startVars>>

\* the report is built and sendto returns >= 0
rtcp_sent(c) ==
  /\ proc = "running"
  /\ rtcp_pc[c] = "loop"
  /\ rtcp_ssrc[c] # Zero32
  /\ rtcp_pc' = [rtcp_pc EXCEPT ![c] = "sleep"]
  /\ rtcp_last' = [rtcp_last EXCEPT ![c] = "sent"]
  /\ UNCHANGED <<rtcp_ssrc, errors>>
  /\ UNCHANGED <<chanVars, procVars, sigVars, tplVars, startVars>>

increment_twice(n) == n + 2

\* chan->output.errors++
increment(n) == n + 1

\* the report is built and sendto returns < 0: chan->output.errors++
rtcp_send_failed(c) ==
  /\ proc = "running"
  /\ rtcp_pc[c] = "loop"
  /\ rtcp_ssrc[c] # Zero32
  /\ errors[c] < MaxErrors
  /\ errors' = [errors EXCEPT ![c] = increment(errors[c])]
  /\ rtcp_pc' = [rtcp_pc EXCEPT ![c] = "sleep"]
  /\ rtcp_last' = [rtcp_last EXCEPT ![c] = "send failed"]
  /\ UNCHANGED rtcp_ssrc
  /\ UNCHANGED <<chanVars, procVars, sigVars, tplVars, startVars>>

\* done:; sleep(1) returns and while(true) starts the next pass
rtcp_wake(c) ==
  /\ proc = "running"
  /\ rtcp_pc[c] = "sleep"
  /\ rtcp_pc' = [rtcp_pc EXCEPT ![c] = "loop"]
  /\ rtcp_last' = [rtcp_last EXCEPT ![c] =
                     IF Stop_transfers THEN "woke, stop set" ELSE "woke"]
  /\ UNCHANGED <<rtcp_ssrc, errors>>
  /\ UNCHANGED <<chanVars, procVars, sigVars, tplVars, startVars>>

rtcp_send(c) ==
  \/ rtcp_start(c)
  \/ rtcp_no_ssrc(c)
  \/ rtcp_sent(c)
  \/ rtcp_send_failed(c)
  \/ rtcp_wake(c)

InitRtcp ==
  /\ RtcpInit
  /\ ProcIdle /\ SignalIdle /\ ChanIdle /\ TemplateIdle /\ StartupIdle

NextRtcp ==
  \/ \E a \in TermSignals : DeliverTerm(a)
  \/ closedown
  \/ \E c \in RtcpChannels : rtcp_send(c)

SpecRtcp == InitRtcp /\ [][NextRtcp]_vars

----------------------------------------------------------------------------
(***************************************************************************)
(* Properties of the signal handlers and of the RTCP senders.              *)
(***************************************************************************)
\* the steps of closedown, in the order of the code's statements
ClosedownSteps == <<"write", "Stop_transfers", "sleep", "_exit">>

\* the steps the invocation for signal a has made so far
StepsOf(a) ==
  LET mine == SelectSeq(trace, LAMBDA e : e[1] = a)
  IN  [i \in 1 .. Len(mine) |-> mine[i][2]]

\* C7: closedown sets Stop_transfers before it waits its second and waits
\* before it terminates the process; the exit status is 0 for SIGTERM and
\* 70 for SIGINT and SIGQUIT, and the process never exits from the handler
\* with Stop_transfers false.
C7_Closedown ==
  /\ \A a \in TermSignals :
       /\ Len(StepsOf(a)) <= 4
       /\ StepsOf(a) = SubSeq(ClosedownSteps, 1, Len(StepsOf(a)))
       /\ Len(StepsOf(a)) >= 3 => Stop_transfers
  /\ proc = "exited" =>
       /\ Stop_transfers
       /\ trace # <<>>
       /\ trace[Len(trace)][2] = "_exit"
       /\ StepsOf(trace[Len(trace)][1]) = ClosedownSteps
       /\ trace[Len(trace)][1] = "SIGTERM" => exit_code = 0
       /\ trace[Len(trace)][1] \in {"SIGINT", "SIGQUIT"} => exit_code = 70

\* SIGTERM arrives during the second that the handler of SIGINT waits, and
\* the process exits from the handler of SIGTERM
C7_Witness ==
  /\ proc = "exited"
  /\ exit_code = 0
  /\ Len(handlers) = 2
  /\ handlers[1] = [sig |-> "SIGINT", pc |-> "_exit"]

\* C8: once Stop_transfers is set, an rtcp_send worker that is in its
\* one-second sleep leaves its loop when the sleep ends: it does not start
\* another pass of the loop.
C8_ExitAtSuspensionPoint ==
  [][\A c \in RtcpChannels :
       (Stop_transfers /\ rtcp_pc[c] = "sleep")
         => rtcp_pc'[c] \in {"sleep", "exited"}]_vars

\* the sleep of an rtcp_send worker has ended with Stop_transfers set, and
\* the worker, whose channel has an SSRC, is at the head of its loop again
C8_Witness ==
  \E c \in RtcpChannels :
    /\ proc = "running"
    /\ rtcp_pc[c] = "loop"
    /\ rtcp_last[c] = "woke, stop set"
    /\ rtcp_ssrc[c] # Zero32

\* C9: a SIGUSR1 raises Verbose by exactly 1; a SIGUSR2 lowers it by
\* exactly 1 but never below 0: after a SIGUSR2 Verbose is >= 0, and a
\* SIGUSR2 that finds Verbose at 0 leaves it at 0.
C9_Verbosity ==
  /\ delivered.sig = "SIGUSR1" => Verbose = delivered.before + 1
  /\ delivered.sig = "SIGUSR2" =>
       /\ Verbose >= 0
       /\ delivered.before = 0 => Verbose = 0
       /\ delivered.before > 0 => Verbose = delivered.before - 1

\* a SIGUSR2 has found Verbose at 0 and left it at 0
C9_Witness ==
  /\ delivered = [sig |-> "SIGUSR2", before |-> 0]
  /\ Verbose = 0

----------------------------------------------------------------------------
(***************************************************************************)
(* Parameter resolution: Template in loadconfig (main.c:523-539) and the   *)
(* chan_template of a section in process_section (main.c:662-694).         *)
(* Two parameters are followed: output.ttl, which has the rule of          *)
(* main.c:693-694, and output.samprate, which stands for the others.       *)
(* A source is a record that gives each parameter a value or Unset.        *)
(***************************************************************************)
Params == {"ttl", "samprate"}

TtlValues == {0, 1, 2}

\* the names a "preset" (or "mode") key may give: an entry of the preset
\* table, a name that is not in it, or no key at all
PresetKeys == {NULL, "am", "xyz"}

\* what a source may say: any TTL or none, its own sample rate or none
Settings(rate) == [ttl : {Unset} \cup TtlValues, samprate : {Unset, rate}]

TemplateInit ==
  /\ tpl_pc = "Preset_table"
  /\ cfg \in [presets_file : {"loads", "does not load"},
              defaults : [ttl : {0, 1}, samprate : {24000}],
              global : Settings(12000),
              am : Settings(16000),
              section : Settings(8000),
              global_preset : PresetKeys,
              section_preset : PresetKeys]
  /\ Template = NULL
  /\ section_template = NULL

\* does Preset_table hold an entry under this name
InPresetTable(name) == name = "am"

\* the entry of Preset_table under a name it holds
PresetEntry(name) == cfg[name]

\* config_getstring(Configtable,GLOBAL,"preset","am") (main.c:533-534)
GlobalPreset ==
  IF cfg.global_preset = NULL THEN "am" ELSE cfg.global_preset

\* config2_getstring(Configtable,Configtable,GLOBAL,sname,"preset",...)
\* (main.c:664-665): the section's key, else the one of [global], else NULL
SectionPreset ==
  IF cfg.section_preset # NULL THEN cfg.section_preset ELSE cfg.global_preset

loadpreset_nothing(c, entry) == c

\* loadpreset(chan, table, section): every key the entry holds overwrites
\* the channel's value
loadpreset(c, entry) ==
  [p \in Params |-> IF entry[p] # Unset THEN entry[p] ELSE c[p]]

use_section_ttl(ttl, global_ttl) == ttl

\* if(chan_template.output.ttl != 0 && Template.output.ttl != 0)
\*   chan_template.output.ttl = Template.output.ttl
use_global_ttl(ttl, global_ttl) ==
  IF ttl # 0 /\ global_ttl # 0 THEN global_ttl ELSE ttl

tpl_step(from, to) ==
  /\ proc = "running"
  /\ tpl_pc = from
  /\ tpl_pc' = to
  /\ UNCHANGED cfg

\* Preset_table = iniparser_load(Preset_file) is NULL:
\* exit(EX_UNAVAILABLE) (main.c:450-458)
preset_table_failed ==
  /\ tpl_step("Preset_table", "exit")
  /\ cfg.presets_file = "does not load"
  /\ proc' = "exited"
  /\ exit_code' = EX_UNAVAILABLE
  /\ UNCHANGED <<Template, section_template>>
  /\ UNCHANGED <<chanVars, sigVars, rtcpVars, startVars>>

preset_table_loaded ==
  /\ tpl_step("Preset_table", "Template")
  /\ cfg.presets_file = "loads"
  /\ UNCHANGED <<Template, section_template, procVars>>
  /\ UNCHANGED <<chanVars, sigVars, rtcpVars, startVars>>

\* set_defaults(&Template)
template_defaults ==
  /\ tpl_step("Template", "Template preset")
  /\ Template' = cfg.defaults
  /\ UNCHANGED <<section_template, procVars>>
  /\ UNCHANGED <<chanVars, sigVars, rtcpVars, startVars>>

\* loadpreset(&Template,Preset_table,preset) == 0
template_preset ==
  /\ tpl_step("Template preset", "Template global")
  /\ InPresetTable(GlobalPreset)
  /\ Template' = loadpreset(Template, PresetEntry(GlobalPreset))
  /\ UNCHANGED <<section_template, procVars>>
  /\ UNCHANGED <<chanVars, sigVars, rtcpVars, startVars>>

\* loadpreset(&Template,Preset_table,preset) != 0: a warning
template_preset_failed ==
  /\ tpl_step("Template preset", "Template global")
  /\ ~InPresetTable(GlobalPreset)
  /\ UNCHANGED <<Template, section_template, procVars>>
  /\ UNCHANGED <<chanVars, sigVars, rtcpVars, startVars>>

\* loadpreset(&Template,Configtable,GLOBAL)
template_global ==
  /\ tpl_step("Template global", "set_defaults")
  /\ Template' = loadpreset(Template, cfg.global)
  /\ UNCHANGED <<section_template, procVars>>
  /\ UNCHANGED <<chanVars, sigVars, rtcpVars, startVars>>

\* set_defaults(&chan_template): compiled-in defaults (#4)
section_defaults ==
  /\ tpl_step("set_defaults", "global")
  /\ section_template' = cfg.defaults
  /\ UNCHANGED <<Template, procVars>>
  /\ UNCHANGED <<chanVars, sigVars, rtcpVars, startVars>>

\* loadpreset(&chan_template,Configtable,GLOBAL): [global] section (#3)
section_global ==
  /\ tpl_step("global", "preset")
  /\ section_template' = loadpreset(section_template, cfg.global)
  /\ UNCHANGED <<Template, procVars>>
  /\ UNCHANGED <<chanVars, sigVars, rtcpVars, startVars>>

\* preset != NULL && loadpreset(...) == 0: preset database entry (#2)
section_preset ==
  /\ tpl_step("preset", "strlcpy")
  /\ SectionPreset # NULL
  /\ InPresetTable(SectionPreset)
  /\ section_template' =
       loadpreset(section_template, PresetEntry(SectionPreset))
  /\ UNCHANGED <<Template, procVars>>
  /\ UNCHANGED <<chanVars, sigVars, rtcpVars, startVars>>

\* preset != NULL && loadpreset(...) != 0: a warning
section_preset_failed ==
  /\ tpl_step("preset", "strlcpy")
  /\ SectionPreset # NULL
  /\ ~InPresetTable(SectionPreset)
  /\ UNCHANGED <<Template, section_template, procVars>>
  /\ UNCHANGED <<chanVars, sigVars, rtcpVars, startVars>>

\* preset == NULL: loadpreset is not called
section_no_preset ==
  /\ tpl_step("preset", "strlcpy")
  /\ SectionPreset = NULL
  /\ UNCHANGED <<Template, section_template, procVars>>
  /\ UNCHANGED <<chanVars, sigVars, rtcpVars, startVars>>

\* strlcpy(chan_template.preset,preset,sizeof chan_template.preset)
section_strlcpy ==
  /\ tpl_step("strlcpy", "section")
  /\ SectionPreset # NULL
  /\ UNCHANGED <<Template, section_template, procVars>>
  /\ UNCHANGED <<chanVars, sigVars, rtcpVars, startVars>>

\* strlcpy with preset == NULL reads through a null pointer: the thread
\* faults, or the library copies nothing and returns
section_strlcpy_null ==
  /\ SectionPreset = NULL
  /\ \/ /\ tpl_step("strlcpy", "section")
        /\ UNCHANGED proc
     \/ /\ tpl_step("strlcpy", "strlcpy")
        /\ proc' = "crashed"
  /\ UNCHANGED <<Template, section_template, exit_code>>
  /\ UNCHANGED <<chanVars, sigVars, rtcpVars, startVars>>

\* loadpreset(&chan_template,Configtable,sname): this section (#1)
section_section ==
  /\ tpl_step("section", "ttl")
  /\ section_template' = loadpreset(section_template, cfg.section)
  /\ UNCHANGED <<Template, procVars>>
  /\ UNCHANGED <<chanVars, sigVars, rtcpVars, startVars>>

\* use global ttl when both are non-zero (main.c:693-694)
section_ttl ==
  /\ tpl_step("ttl", "done")
  /\ section_template' =
       [section_template EXCEPT
          !.ttl = use_global_ttl(section_template.ttl, Template.ttl)]
  /\ UNCHANGED <<Template, procVars>>
  /\ UNCHANGED <<chanVars, sigVars, rtcpVars, startVars>>

InitTemplate ==
  /\ TemplateInit
  /\ ProcIdle /\ SignalIdle /\ RtcpIdle /\ ChanIdle /\ StartupIdle

NextTemplate ==
  \/ preset_table_failed
  \/ preset_table_loaded
  \/ template_defaults
  \/ template_preset
  \/ template_preset_failed
  \/ template_global
  \/ section_defaults
  \/ section_global
  \/ section_preset
  \/ section_preset_failed
  \/ section_no_preset
  \/ section_strlcpy
  \/ section_strlcpy_null
  \/ section_section
  \/ section_ttl

SpecTemplate == InitTemplate /\ [][NextTemplate]_vars

----------------------------------------------------------------------------
(***************************************************************************)
(* Properties of the parameter resolution, checked under SpecTemplate.     *)
(***************************************************************************)
\* the sources of a section's parameters, highest priority first; a preset
\* that is not named or not in the table is no source
Sources ==
  <<cfg.section>>
    \o (IF InPresetTable(SectionPreset) THEN <<cfg.am>> ELSE <<>>)
    \o <<cfg.global, cfg.defaults>>

\* the value of parameter p in the highest-priority source that defines it
Highest(p) ==
  LET defining == {i \in 1 .. Len(Sources) : Sources[i][p] # Unset}
      first == CHOOSE i \in defining : \A j \in defining : i <= j
  IN  Sources[first][p]

\* the TTL of [global] as Template holds it: the key of [global], else the
\* one of the preset named in [global] (by default "am"), else the default
GlobalTtl ==
  IF cfg.global.ttl # Unset THEN cfg.global.ttl
  ELSE IF InPresetTable(GlobalPreset) /\ cfg.am.ttl # Unset THEN cfg.am.ttl
  ELSE cfg.defaults.ttl

\* C6 as stated: every parameter of chan_template, the output TTL
\* included, has the value of the highest-priority source that defines it.
C6_StrictPriority ==
  tpl_pc = "done" => \A p \in Params : section_template[p] = Highest(p)

\* C6: every parameter of chan_template other than the output TTL has the
\* value of the highest-priority source that defines it (section, preset
\* entry, [global], compiled-in defaults); the output TTL has that value
\* only when it or the TTL of the global Template is 0, and otherwise it is
\* the TTL of the global Template, whatever the section or preset says.
C6_PriorityExceptTtl ==
  tpl_pc = "done" =>
    /\ \A p \in Params \ {"ttl"} : section_template[p] = Highest(p)
    /\ section_template.ttl =
         IF Highest("ttl") # 0 /\ GlobalTtl # 0 THEN GlobalTtl
         ELSE Highest("ttl")

\* the section asks for TTL 2 and for its own sample rate, [global] asks
\* for TTL 1: the sample rate is the section's, the TTL is the global one
C6_Witness ==
  /\ tpl_pc = "done"
  /\ cfg.section.ttl = 2
  /\ cfg.global.ttl = 1
  /\ cfg.section.samprate # Unset
  /\ section_template.samprate = cfg.section.samprate
  /\ section_template.ttl = 1

----------------------------------------------------------------------------
(***************************************************************************)
(* loadconfig (main.c:295-654) with setup_hardware (main.c:829-976), from  *)
(* the loading of the configuration to the return of loadconfig.  What the *)
(* environment answers (files, the driver library, the driver's setup and  *)
(* start routines, the sockets) is chosen when the code asks for it.       *)
(* Blocktime is kept in tenths of a millisecond.                           *)
(***************************************************************************)
\* "blocktime" in [global], tenths of a millisecond: 20 ms, 2.5 ms, 0, -20 ms
BlocktimeSettings == {200, 25, 0, -200}

\* "overlap" in [global]
OverlapSettings == {5, 2, 1, 0, -5}

\* Frontend.samprate as the driver's setup leaves it
DriverSamprates == {1200000, 1000, 0}

\* what a driver's setup or start routine may return
DriverReturns == {0, -1, 1}

\* what dlsym may give for <device>_startup: the function, an error, or a
\* symbol whose value is NULL
StartupSymbols == {"found", "missing", "null"}

\* fabs(), abs()
abs(x) == IF x < 0 THEN 0 - x ELSE x

\* int / int in C: the quotient truncated toward zero (b # 0)
Quotient(a, b) ==
  IF (a < 0) = (b < 0) THEN abs(a) \div abs(b) ELSE 0 - (abs(a) \div abs(b))

\* lround(samprate * Blocktime / 1000.0), both factors >= 0 and the
\* product exact in a float
BlockSize(samprate, blocktime) == (samprate * blocktime + 5000) \div 10000

\* "fft-plan-level" in [global]: absent, one of the five names (matched
\* without regard to case), or another word
PlanLevelSettings == {NULL, "Estimate", "fastest"}

\* the names of the planning levels, in lower case
PlanLevels ==
  [estimate |-> "FFTW_ESTIMATE", measure |-> "FFTW_MEASURE",
   patient |-> "FFTW_PATIENT", exhaustive |-> "FFTW_EXHAUSTIVE",
   wisdom_only |-> "FFTW_WISDOM_ONLY"]

\* lower case of the words in PlanLevelSettings, '-' written as '_'
tolower(word) == IF word = "Estimate" THEN "estimate" ELSE word

\* config_getstring(Configtable,GLOBAL,"fft-plan-level","patient") and the
\* chain of strcasecmp (main.c:424-437): a word that is none of the five
\* names leaves FFTW_planning_level as it is
planning_level(setting, level) ==
  LET cp == IF setting = NULL THEN "patient" ELSE tolower(setting)
  IN  IF cp \in DOMAIN PlanLevels THEN PlanLevels[cp] ELSE level

\* config_validate_section: what it writes to stderr
config_validate_section(c) ==
  IF c.unknown_key THEN {"unknown key in [global]"} ELSE {}

\* what output_mcast may return: -1, or the descriptor of the new socket
SocketReturns(fd) == {-1, fd}

negative_never(fd) == FALSE

\* if(Output_fd < 0), if(Output_fd0 < 0)
negative(fd) == fd < 0

nonzero_is_negative(r) == r < 0

\* if(setup_hardware(sname) != 0), if(r != 0)
nonzero(r) == r # 0

\* the size of spurs[]: the most spur frequencies a driver can configure
NSPURS == 3

\* what a driver may put into an entry of Frontend.spurs, in Hz: unused (0),
\* closer to 0 Hz than half a bin, a spur on either side of 0 Hz, beyond
\* half the sample rate
SpurFrequencies == {0, 10, 5000, -5000, 700000}

\* double spurs[NSPURS], entry i at index i + 1
SpurLists == [1..NSPURS -> SpurFrequencies]

no_tail(M, L) == M + L

\* int const N = Frontend.M + Frontend.L - 1
fft_size(M, L) == M + L - 1

\* the N of the filter input that create_filter_input builds from L and M
filter_input_N(L, M) == L + M - 1

\* the quotient a / b rounded to the nearest integer, halves away from
\* zero (b > 0)
round(a, b) ==
  IF a < 0 THEN 0 - ((2 * (0 - a) + b) \div (2 * b)) ELSE (2 * a + b) \div (2 * b)

\* compute_tuning(N, M, samprate, &shift, &remainder, f): r # 0 when the
\* frequency f is out of range, else shift = round(f / bin_width) with
\* bin_width = samprate / N
compute_tuning(N, M, samprate, isreal, f) ==
  IF 2 * abs(f) > samprate \/ (isreal /\ f < 0)
  THEN [r |-> -1, shift |-> 0]
  ELSE [r |-> 0, shift |-> IF f = 0 THEN 0 ELSE round(f * N, samprate)]

entries_for_spurs == NSPURS

\* calloc(100, sizeof (struct notch_state)): the number of entries
notch_entries == 100

\* calloc(n, sizeof (struct notch_state)): n zeroed entries, alpha in
\* hundredths
calloc(n) == [k \in 0..(n - 1) |-> [state |-> 0, bin |-> 0, alpha |-> 0]]

\* the body of the loop over Frontend.spurs, from spur i and entry notch
\* on: written is the set of the entries of the array that were assigned
RECURSIVE spur_loop(_, _, _, _, _, _, _, _, _)
spur_loop(i, notch, notches, written, N, M, samprate, isreal, spurs) ==
  LET t == compute_tuning(N, M, samprate, isreal, spurs[i + 1])
      assigned ==
        IF notch \in DOMAIN notches
        THEN [notches EXCEPT ![notch] = [state |-> 0, bin |-> abs(t.shift), alpha |-> 1]]
        ELSE notches
  IN  IF ~(i < NSPURS) THEN [notches |-> notches, written |-> written]
      ELSE IF t.r # 0 THEN [notches |-> notches, written |-> written]
      ELSE IF t.shift = 0 THEN [notches |-> assigned, written |-> written \cup {notch}]
      ELSE spur_loop(i + 1, notch + 1, assigned, written \cup {notch},
                     N, M, samprate, isreal, spurs)

\* static int const DEFAULT_LIFETIME = 20, in seconds
DEFAULT_LIFETIME == 20

in_seconds(seconds, blocktime) == {seconds}

\* seconds * 1000 / Blocktime converted to int: the quotient truncated; with
\* Blocktime == 0 the quotient is infinite and its conversion to int is
\* undefined, giving the largest or the smallest int
blocks_in(seconds, blocktime) ==
  IF blocktime = 0 THEN {2147483647, (0 - 2147483647) - 1}
  ELSE {Quotient(seconds * 1000 * 10, blocktime)}

\* no channel created on a command yet
NoChannel ==
  [created |-> FALSE, inuse |-> FALSE, freq |-> 0, lifetime |-> 0, idle |-> 0]

StartupInit ==
  /\ st_pc = "iniparser_load"
  /\ build \in [STATIC : BOOLEAN, NDEBUG : BOOLEAN]
  /\ global_cfg \in [unknown_key : BOOLEAN, fft_plan_level : PlanLevelSettings]
  /\ device = [isreal |-> FALSE, spurs |-> [i \in 1..NSPURS |-> 0]]
  /\ FFTW_planning_level = "FFTW_PATIENT"
  /\ reported = {}
  /\ hw = [dlopen |-> "none", setup_symbol |-> "none",
           startup_symbol |-> "none", tune_symbol |-> "none",
           setup_r |-> {}, start_absent |-> FALSE, start_r |-> {},
           output_mcast |-> {}, output_mcast0 |-> {}]
  /\ Frontend = [setup |-> FALSE, start |-> FALSE, tune |-> FALSE,
                 samprate |-> 0, L |-> 0, M |-> 0, isreal |-> FALSE,
                 in_N |-> 0, spurs |-> [i \in 1..NSPURS |-> 0], N |-> 0, notches |-> <<>>,
                 written |-> {}]
  /\ hw_r = NoReturn
  /\ Blocktime = 200
  /\ Overlap = 5
  /\ Output_fd = -1
  /\ Output_fd0 = -1
  /\ Ctl_fd = -1
  /\ Status_thread = FALSE
  /\ startup_threads = {}
  /\ Channel_idle_timeout = 0
  /\ Template_lifetime = 0
  /\ dynamic = NoChannel

\* the variables of loadconfig other than the position
startData ==
  <<build, device, global_cfg, FFTW_planning_level, reported, hw, Frontend, hw_r, Blocktime, Overlap, Output_fd, Output_fd0,
    Ctl_fd, Status_thread, startup_threads,
                 Channel_idle_timeout, Template_lifetime, dynamic>>

st_step(from, to) ==
  /\ proc = "running"
  /\ st_pc = from
  /\ st_pc' = to
  /\ UNCHANGED <<chanVars, sigVars, rtcpVars, tplVars>>

\* exit(code)
st_exit(from, code) ==
  /\ st_step(from, "exit")
  /\ proc' = "exited"
  /\ exit_code' = code

\* setup_hardware returns r
hw_return(from, r) ==
  /\ st_step(from, "setup_hardware returned")
  /\ hw_r' = r
  /\ UNCHANGED procVars

\* Configtable == NULL: loadconfig returns -1 and main exits (main.c:249-253)
load_failed ==
  /\ st_exit("iniparser_load", EX_NOINPUT)
  /\ reported' = {"Can't load config file"}
  /\ UNCHANGED <<build, device, global_cfg, FFTW_planning_level, hw, Frontend, hw_r,
                 Blocktime, Overlap, Output_fd, Output_fd0, Ctl_fd,
                 Status_thread, startup_threads,
                 Channel_idle_timeout, Template_lifetime, dynamic>>

\* Configtable != NULL; config_validate_section(stderr,Configtable,GLOBAL,
\* Global_keys,Channel_keys) reports the keys it does not know, and its
\* result is not used
load_ok ==
  /\ st_step("iniparser_load", "global")
  /\ reported' = config_validate_section(global_cfg)
  /\ UNCHANGED <<procVars, build, device, global_cfg, FFTW_planning_level, hw,
                 Frontend, hw_r, Blocktime, Overlap, Output_fd, Output_fd0,
                 Ctl_fd, Status_thread, startup_threads,
                 Channel_idle_timeout, Template_lifetime, dynamic>>

\* Blocktime = fabs(config_getdouble(...)); Overlap = abs(config_getint(...))
read_global ==
  /\ st_step("global", "presets")
  /\ \E b \in BlocktimeSettings : Blocktime' = abs(b)
  /\ Channel_idle_timeout' \in blocks_in(20, Blocktime')
  /\ \E o \in OverlapSettings : Overlap' = abs(o)
  /\ FFTW_planning_level' =
       planning_level(global_cfg.fft_plan_level, FFTW_planning_level)
  /\ UNCHANGED <<procVars, build, device, global_cfg, reported, hw, Frontend, hw_r, Output_fd, Output_fd0,
                 Ctl_fd, Status_thread, startup_threads,
                 Template_lifetime, dynamic>>

\* Preset_table == NULL: exit(EX_UNAVAILABLE)
presets_failed ==
  /\ st_exit("presets", EX_UNAVAILABLE)
  /\ UNCHANGED startData

presets_loaded ==
  /\ st_step("presets", "hardware")
  /\ UNCHANGED <<procVars, startData>>

\* hardware == NULL: exit(EX_USAGE)
no_hardware_key ==
  /\ st_exit("hardware", EX_USAGE)
  /\ UNCHANGED startData

\* sect == nsect: exit(EX_USAGE)
no_hardware_section ==
  /\ st_exit("hardware", EX_USAGE)
  /\ UNCHANGED startData

\* setup_hardware(sname) with a device that is compiled in (#ifdef STATIC)
device_static ==
  /\ st_step("hardware", "setup")
  /\ build.STATIC
  /\ Frontend' = [Frontend EXCEPT !.setup = TRUE, !.start = TRUE, !.tune = TRUE]
  /\ UNCHANGED <<procVars, build, device, global_cfg, FFTW_planning_level, reported, hw, hw_r, Blocktime, Overlap, Output_fd,
                 Output_fd0, Ctl_fd, Status_thread, startup_threads,
                 Channel_idle_timeout, Template_lifetime, dynamic>>

\* setup_hardware(sname) with a device to be found dynamically
device_dynamic ==
  /\ st_step("hardware", "dlopen")
  /\ UNCHANGED <<procVars, startData>>

\* Dl_handle == NULL: return -1
dlopen_failed ==
  /\ hw_return("dlopen", -1)
  /\ hw' = [hw EXCEPT !.dlopen = "failed"]
  /\ UNCHANGED <<build, device, global_cfg, FFTW_planning_level, reported, Frontend, Blocktime, Overlap, Output_fd, Output_fd0,
                 Ctl_fd, Status_thread, startup_threads,
                 Channel_idle_timeout, Template_lifetime, dynamic>>

dlopen_ok ==
  /\ st_step("dlopen", "dlsym setup")
  /\ hw' = [hw EXCEPT !.dlopen = "ok"]
  /\ UNCHANGED <<procVars, build, device, global_cfg, FFTW_planning_level, reported, Frontend, hw_r, Blocktime, Overlap,
                 Output_fd, Output_fd0, Ctl_fd, Status_thread, startup_threads,
                 Channel_idle_timeout, Template_lifetime, dynamic>>

\* <device>_setup not found: return -1
dlsym_setup_missing ==
  /\ hw_return("dlsym setup", -1)
  /\ hw' = [hw EXCEPT !.setup_symbol = "missing"]
  /\ UNCHANGED <<build, device, global_cfg, FFTW_planning_level, reported, Frontend, Blocktime, Overlap, Output_fd, Output_fd0,
                 Ctl_fd, Status_thread, startup_threads,
                 Channel_idle_timeout, Template_lifetime, dynamic>>

dlsym_setup_found ==
  /\ st_step("dlsym setup", "dlsym startup")
  /\ Frontend' = [Frontend EXCEPT !.setup = TRUE]
  /\ hw' = [hw EXCEPT !.setup_symbol = "found"]
  /\ UNCHANGED <<procVars, build, device, global_cfg, FFTW_planning_level, reported, hw_r, Blocktime, Overlap, Output_fd,
                 Output_fd0, Ctl_fd, Status_thread, startup_threads,
                 Channel_idle_timeout, Template_lifetime, dynamic>>

\* Frontend.start = dlsym(Dl_handle,symname): an error returns -1; without
\* an error Frontend.start is what dlsym gave, a function or NULL
dlsym_startup ==
  /\ \E sym \in StartupSymbols :
       /\ hw' = [hw EXCEPT !.startup_symbol = sym]
       /\ \/ /\ sym = "missing"
             /\ hw_return("dlsym startup", -1)
             /\ UNCHANGED Frontend
          \/ /\ sym # "missing"
             /\ st_step("dlsym startup", "dlsym tune")
             /\ Frontend' = [Frontend EXCEPT !.start = (sym = "found")]
             /\ UNCHANGED <<procVars, hw_r>>
  /\ UNCHANGED <<build, device, global_cfg, FFTW_planning_level, reported, Blocktime, Overlap, Output_fd, Output_fd0, Ctl_fd,
                 Status_thread, startup_threads,
                 Channel_idle_timeout, Template_lifetime, dynamic>>

\* <device>_tune not found: a warning, not fatal
dlsym_tune_missing ==
  /\ st_step("dlsym tune", "setup")
  /\ hw' = [hw EXCEPT !.tune_symbol = "missing"]
  /\ UNCHANGED <<procVars, build, device, global_cfg, FFTW_planning_level, reported, Frontend, hw_r, Blocktime, Overlap,
                 Output_fd, Output_fd0, Ctl_fd, Status_thread, startup_threads,
                 Channel_idle_timeout, Template_lifetime, dynamic>>

dlsym_tune_found ==
  /\ st_step("dlsym tune", "setup")
  /\ Frontend' = [Frontend EXCEPT !.tune = TRUE]
  /\ hw' = [hw EXCEPT !.tune_symbol = "found"]
  /\ UNCHANGED <<procVars, build, device, global_cfg, FFTW_planning_level, reported, hw_r, Blocktime, Overlap, Output_fd,
                 Output_fd0, Ctl_fd, Status_thread, startup_threads,
                 Channel_idle_timeout, Template_lifetime, dynamic>>

\* r = (*Frontend.setup)(...); if(r != 0) return r
setup_failed ==
  /\ \E r \in DriverReturns :
       /\ nonzero(r)
       /\ hw_return("setup", r)
       /\ hw' = [hw EXCEPT !.setup_r = {r}]
  /\ UNCHANGED <<build, device, global_cfg, FFTW_planning_level, reported, Frontend, Blocktime, Overlap, Output_fd, Output_fd0,
                 Ctl_fd, Status_thread, startup_threads,
                 Channel_idle_timeout, Template_lifetime, dynamic>>

\* r == 0: the driver has filled in Frontend.samprate, Frontend.isreal and
\* Frontend.spurs
setup_ok ==
  /\ st_step("setup", "filter")
  /\ \E r \in DriverReturns :
       /\ ~nonzero(r)
       /\ hw' = [hw EXCEPT !.setup_r = {r}]
  /\ \E rate \in DriverSamprates :
       Frontend' = [Frontend EXCEPT !.samprate = rate,
                                    !.isreal = device.isreal,
                                    !.spurs = device.spurs]
  /\ UNCHANGED <<procVars, build, device, global_cfg, FFTW_planning_level, reported, hw_r, Blocktime, Overlap, Output_fd,
                 Output_fd0, Ctl_fd, Status_thread, startup_threads,
                 Channel_idle_timeout, Template_lifetime, dynamic>>

\* assert(Frontend.samprate != 0) fails: abort()
assert_samprate_fails ==
  /\ st_step("filter", "abort")
  /\ ~build.NDEBUG
  /\ Frontend.samprate = 0
  /\ proc' = "crashed"
  /\ UNCHANGED <<exit_code, startData>>

\* Frontend.L / (Overlap - 1) with Overlap == 1: an integer division by
\* zero, which traps, or on hardware that does not trap gives 0
divide_by_zero ==
  /\ build.NDEBUG \/ Frontend.samprate # 0
  /\ Overlap = 1
  /\ \/ /\ st_step("filter", "fault")
        /\ proc' = "crashed"
        /\ UNCHANGED <<exit_code, Frontend>>
     \/ /\ st_step("filter", "asserts")
        /\ Frontend' = [Frontend EXCEPT
                          !.L = BlockSize(Frontend.samprate, Blocktime),
                          !.M = 1]
        /\ UNCHANGED procVars
  /\ UNCHANGED <<build, device, global_cfg, FFTW_planning_level, reported, hw, hw_r, Blocktime, Overlap, Output_fd, Output_fd0,
                 Ctl_fd, Status_thread, startup_threads,
                 Channel_idle_timeout, Template_lifetime, dynamic>>

\* Frontend.L = lround(eL); Frontend.M = Frontend.L / (Overlap - 1) + 1
block_sizes ==
  /\ st_step("filter", "asserts")
  /\ build.NDEBUG \/ Frontend.samprate # 0
  /\ Overlap # 1
  /\ Frontend' =
       [Frontend EXCEPT
          !.L = BlockSize(Frontend.samprate, Blocktime),
          !.M = Quotient(BlockSize(Frontend.samprate, Blocktime), Overlap - 1) + 1]
  /\ UNCHANGED <<procVars, build, device, global_cfg, FFTW_planning_level, reported, hw, hw_r, Blocktime, Overlap, Output_fd,
                 Output_fd0, Ctl_fd, Status_thread, startup_threads,
                 Channel_idle_timeout, Template_lifetime, dynamic>>

\* assert(Frontend.M != 0) or assert(Frontend.L != 0) fails: abort()
assert_sizes_fail ==
  /\ st_step("asserts", "abort")
  /\ ~build.NDEBUG
  /\ Frontend.M = 0 \/ Frontend.L = 0
  /\ proc' = "crashed"
  /\ UNCHANGED <<exit_code, startData>>

\* create_filter_input(&Frontend.in,Frontend.L,Frontend.M,
\*                     Frontend.isreal ? REAL : COMPLEX)
create_filter_input ==
  /\ st_step("asserts", "notches")
  /\ build.NDEBUG \/ (Frontend.M # 0 /\ Frontend.L # 0)
  /\ Frontend' = [Frontend EXCEPT !.in_N = filter_input_N(Frontend.L, Frontend.M)]
  /\ UNCHANGED <<procVars, build, device, global_cfg, FFTW_planning_level, reported, hw, hw_r, Blocktime, Overlap,
                 Output_fd, Output_fd0, Ctl_fd, Status_thread, startup_threads,
                 Channel_idle_timeout, Template_lifetime, dynamic>>

\* Frontend.in.notches = calloc(100, ...); int const N = ...; the loop over
\* Frontend.spurs
init_notches ==
  /\ st_step("notches", "start")
  /\ LET N == fft_size(Frontend.M, Frontend.L)
         done == spur_loop(0, 0, calloc(notch_entries), {}, N, Frontend.M,
                           Frontend.samprate, Frontend.isreal, Frontend.spurs)
     IN  Frontend' = [Frontend EXCEPT
                        !.N = N,
                        !.notches = done.notches,
                        !.written = done.written]
  /\ UNCHANGED <<procVars, build, device, global_cfg, FFTW_planning_level, reported, hw, hw_r, Blocktime, Overlap,
                 Output_fd, Output_fd0, Ctl_fd, Status_thread, startup_threads,
                 Channel_idle_timeout, Template_lifetime, dynamic>>

\* Frontend.start == NULL: return -1
start_absent ==
  /\ hw_return("start", -1)
  /\ ~Frontend.start
  /\ hw' = [hw EXCEPT !.start_absent = TRUE]
  /\ UNCHANGED <<build, device, global_cfg, FFTW_planning_level, reported, Frontend, Blocktime, Overlap, Output_fd, Output_fd0,
                 Ctl_fd, Status_thread, startup_threads,
                 Channel_idle_timeout, Template_lifetime, dynamic>>

\* r = (*Frontend.start)(&Frontend); return r
start_returned ==
  /\ Frontend.start
  /\ \E r \in DriverReturns :
       /\ hw_return("start", r)
       /\ hw' = [hw EXCEPT !.start_r = {r}]
  /\ UNCHANGED <<build, device, global_cfg, FFTW_planning_level, reported, Frontend, Blocktime, Overlap, Output_fd, Output_fd0,
                 Ctl_fd, Status_thread, startup_threads,
                 Channel_idle_timeout, Template_lifetime, dynamic>>

\* if(setup_hardware(sname) != 0) exit(EX_NOINPUT)
hardware_failed ==
  /\ st_exit("setup_hardware returned", EX_NOINPUT)
  /\ nonzero(hw_r)
  /\ UNCHANGED startData

\* setup_hardware returned 0; Template.lifetime = DEFAULT_LIFETIME * 1000 /
\* Blocktime
hardware_ready ==
  /\ st_step("setup_hardware returned", "Output_fd")
  /\ ~nonzero(hw_r)
  /\ Template_lifetime' \in blocks_in(DEFAULT_LIFETIME, Blocktime)
  /\ UNCHANGED <<procVars, build, device, global_cfg, FFTW_planning_level, reported, hw, Frontend, hw_r, Blocktime,
                 Overlap, Output_fd, Output_fd0, Ctl_fd, Status_thread, startup_threads, Channel_idle_timeout,
                 dynamic>>

\* Output_fd = output_mcast(...,ttl,IP_tos); Output_fd < 0: exit(EX_NOHOST)
output_fd_failed ==
  /\ st_exit("Output_fd", EX_NOHOST)
  /\ \E fd \in SocketReturns(3) :
       /\ negative(fd)
       /\ Output_fd' = fd
       /\ hw' = [hw EXCEPT !.output_mcast = {fd}]
  /\ UNCHANGED <<build, device, global_cfg, FFTW_planning_level, reported, Frontend, hw_r, Blocktime, Overlap, Output_fd0,
                 Ctl_fd, Status_thread, startup_threads,
                 Channel_idle_timeout, Template_lifetime, dynamic>>

output_fd_ok ==
  /\ st_step("Output_fd", "Output_fd0")
  /\ \E fd \in SocketReturns(3) :
       /\ ~negative(fd)
       /\ Output_fd' = fd
       /\ hw' = [hw EXCEPT !.output_mcast = {fd}]
  /\ UNCHANGED <<procVars, build, device, global_cfg, FFTW_planning_level, reported, Frontend, hw_r, Blocktime, Overlap,
                 Output_fd0, Ctl_fd, Status_thread, startup_threads,
                 Channel_idle_timeout, Template_lifetime, dynamic>>

\* Output_fd0 = output_mcast(...,0,IP_tos); Output_fd0 < 0: exit(EX_NOHOST)
output_fd0_failed ==
  /\ st_exit("Output_fd0", EX_NOHOST)
  /\ \E fd \in SocketReturns(4) :
       /\ negative(fd)
       /\ Output_fd0' = fd
       /\ hw' = [hw EXCEPT !.output_mcast0 = {fd}]
  /\ UNCHANGED <<build, device, global_cfg, FFTW_planning_level, reported, Frontend, hw_r, Blocktime, Overlap, Output_fd,
                 Ctl_fd, Status_thread, startup_threads,
                 Channel_idle_timeout, Template_lifetime, dynamic>>

output_fd0_ok ==
  /\ st_step("Output_fd0", "status")
  /\ \E fd \in SocketReturns(4) :
       /\ ~negative(fd)
       /\ Output_fd0' = fd
       /\ hw' = [hw EXCEPT !.output_mcast0 = {fd}]
  /\ UNCHANGED <<procVars, build, device, global_cfg, FFTW_planning_level, reported, Frontend, hw_r, Blocktime, Overlap,
                 Output_fd, Ctl_fd, Status_thread, startup_threads,
                 Channel_idle_timeout, Template_lifetime, dynamic>>

\* 0 == strcmp(Metadata_dest_string,Data): exit(EX_USAGE)
duplicate_names ==
  /\ st_exit("status", EX_USAGE)
  /\ UNCHANGED startData

\* Ctl_fd = listen_mcast(...); the status thread is created if Ctl_fd >= 3
listen_ctl ==
  /\ st_step("status", "sections")
  /\ \E fd \in {-1, 2, 5} :
       /\ Ctl_fd' = fd
       /\ Status_thread' = (fd >= 3)
  /\ UNCHANGED <<procVars, build, device, global_cfg, FFTW_planning_level, reported, hw, Frontend, hw_r, Blocktime, Overlap,
                 Output_fd, Output_fd0, startup_threads,
                 Channel_idle_timeout, Template_lifetime, dynamic>>

\* pthread_create(&startup_threads[nthreads++],NULL,process_section,sname)
\* for every section that is a channel section and is not disabled
start_sections ==
  /\ st_step("sections", "join")
  /\ \E enabled \in SUBSET Sections : startup_threads' = enabled
  /\ UNCHANGED <<procVars, build, device, global_cfg, FFTW_planning_level, reported, hw, Frontend, hw_r, Blocktime, Overlap,
                 Output_fd, Output_fd0, Ctl_fd, Status_thread,
                 Channel_idle_timeout, Template_lifetime, dynamic>>

\* pthread_join of every section thread; return Nchans
join_sections ==
  /\ st_step("join", "returned")
  /\ UNCHANGED <<procVars, startData>>

setup_hardware ==
  \/ device_static
  \/ device_dynamic
  \/ dlopen_failed
  \/ dlopen_ok
  \/ dlsym_setup_missing
  \/ dlsym_setup_found
  \/ dlsym_startup
  \/ dlsym_tune_missing
  \/ dlsym_tune_found
  \/ setup_failed
  \/ setup_ok
  \/ assert_samprate_fails
  \/ divide_by_zero
  \/ block_sizes
  \/ assert_sizes_fail
  \/ create_filter_input
  \/ init_notches
  \/ start_absent
  \/ start_returned

loadconfig ==
  \/ load_failed
  \/ load_ok
  \/ read_global
  \/ presets_failed
  \/ presets_loaded
  \/ no_hardware_key
  \/ no_hardware_section
  \/ setup_hardware
  \/ hardware_failed
  \/ hardware_ready
  \/ output_fd_failed
  \/ output_fd_ok
  \/ output_fd0_failed
  \/ output_fd0_ok
  \/ duplicate_names
  \/ listen_ctl
  \/ start_sections
  \/ join_sections

InitStartup ==
  /\ StartupInit
  /\ ProcIdle /\ SignalIdle /\ RtcpIdle /\ ChanIdle /\ TemplateIdle

NextStartup == loadconfig

SpecStartup == InitStartup /\ [][NextStartup]_vars

\* setup_hardware as it is about to call the setup of a device that is
\* compiled in, for every blocktime and overlap of [global] and every list
\* of spurs of the device
FilterInit ==
  /\ st_pc = "setup"
  /\ build \in [STATIC : {TRUE}, NDEBUG : BOOLEAN]
  /\ device \in [isreal : BOOLEAN, spurs : SpurLists]
  /\ global_cfg = [unknown_key |-> FALSE, fft_plan_level |-> NULL]
  /\ FFTW_planning_level = "FFTW_PATIENT"
  /\ reported = {}
  /\ hw = [dlopen |-> "none", setup_symbol |-> "none",
           startup_symbol |-> "none", tune_symbol |-> "none",
           setup_r |-> {}, start_absent |-> FALSE, start_r |-> {},
           output_mcast |-> {}, output_mcast0 |-> {}]
  /\ Frontend = [setup |-> TRUE, start |-> TRUE, tune |-> TRUE,
                 samprate |-> 0, L |-> 0, M |-> 0, isreal |-> FALSE,
                 in_N |-> 0, spurs |-> [i \in 1..NSPURS |-> 0], N |-> 0,
                 notches |-> <<>>, written |-> {}]
  /\ hw_r = NoReturn
  /\ Blocktime \in {abs(b) : b \in BlocktimeSettings}
  /\ Overlap \in {abs(o) : o \in OverlapSettings}
  /\ Output_fd = -1
  /\ Output_fd0 = -1
  /\ Ctl_fd = -1
  /\ Status_thread = FALSE
  /\ startup_threads = {}
  /\ Channel_idle_timeout \in blocks_in(20, Blocktime)
  /\ Template_lifetime = 0
  /\ dynamic = NoChannel

InitFilter ==
  /\ FilterInit
  /\ ProcIdle /\ SignalIdle /\ RtcpIdle /\ ChanIdle /\ TemplateIdle

NextFilter ==
  \/ setup_failed
  \/ setup_ok
  \/ assert_samprate_fails
  \/ divide_by_zero
  \/ block_sizes
  \/ assert_sizes_fail
  \/ create_filter_input
  \/ init_notches

SpecFilter == InitFilter /\ [][NextFilter]_vars

----------------------------------------------------------------------------
(***************************************************************************)
(* The channel that the status thread creates on a command, and its idle   *)
(* timeout.  radio_status, set_freq and the countdown of lifetime are in   *)
(* other files; they follow the description of the channel lifecycle.      *)
(***************************************************************************)
\* the most blocks the model counts for one channel
MaxBlocks == 8000

\* what a command may tune a channel to, in Hz
CommandFrequencies == {0, 7000000}

\* a step of a thread other than main, once the status thread exists
dyn_step ==
  /\ proc = "running"
  /\ Status_thread
  /\ UNCHANGED <<chanVars, procVars, sigVars, rtcpVars, tplVars>>
  /\ UNCHANGED <<st_pc, build, device, global_cfg, FFTW_planning_level, reported, hw, Frontend, hw_r, Blocktime,
                 Overlap, Output_fd, Output_fd0, Ctl_fd, Status_thread, startup_threads, Channel_idle_timeout,
                 Template_lifetime>>

\* a command for an SSRC that has no channel: the channel is created as a
\* copy of Template
radio_status_create ==
  /\ dyn_step
  /\ ~dynamic.created
  /\ \E f \in CommandFrequencies :
       dynamic' = [created |-> TRUE, inuse |-> TRUE, freq |-> f,
                   lifetime |-> Template_lifetime, idle |-> 0]

\* a command for the channel: set_freq, and the countdown starts again
\* from Channel_idle_timeout
radio_status_command ==
  /\ dyn_step
  /\ dynamic.inuse
  /\ \E f \in CommandFrequencies :
       dynamic' = [dynamic EXCEPT !.freq = f,
                                  !.lifetime = Channel_idle_timeout,
                                  !.idle = 0]

\* one block goes by for a channel tuned to 0 Hz: lifetime counts down
demod_block ==
  /\ dyn_step
  /\ dynamic.inuse
  /\ dynamic.freq = 0
  /\ dynamic.lifetime > 0
  /\ dynamic.idle < MaxBlocks
  /\ dynamic' = [dynamic EXCEPT !.lifetime = @ - 1, !.idle = @ + 1]

\* the countdown of a channel tuned to 0 Hz has run out: the channel is
\* destroyed
reap ==
  /\ dyn_step
  /\ dynamic.inuse
  /\ dynamic.freq = 0
  /\ dynamic.lifetime <= 0
  /\ dynamic' = [dynamic EXCEPT !.inuse = FALSE]

\* loadconfig for a device that is compiled in
IdleInit ==
  /\ StartupInit
  /\ build.STATIC
  /\ global_cfg = [unknown_key |-> FALSE, fft_plan_level |-> NULL]

InitIdle ==
  /\ IdleInit
  /\ ProcIdle /\ SignalIdle /\ RtcpIdle /\ ChanIdle /\ TemplateIdle

\* loadconfig up to the creation of the status thread, and the threads
\* that handle the channel created on a command
NextIdle ==
  \/ load_failed
  \/ load_ok
  \/ read_global
  \/ presets_failed
  \/ presets_loaded
  \/ no_hardware_key
  \/ no_hardware_section
  \/ device_static
  \/ setup_failed
  \/ setup_ok
  \/ assert_samprate_fails
  \/ divide_by_zero
  \/ block_sizes
  \/ assert_sizes_fail
  \/ create_filter_input
  \/ init_notches
  \/ start_returned
  \/ hardware_failed
  \/ hardware_ready
  \/ output_fd_failed
  \/ output_fd_ok
  \/ output_fd0_failed
  \/ output_fd0_ok
  \/ duplicate_names
  \/ listen_ctl
  \/ radio_status_create
  \/ radio_status_command
  \/ demod_block
  \/ reap

SpecIdle == InitIdle /\ [][NextIdle]_vars

----------------------------------------------------------------------------
(***************************************************************************)
(* Properties of the start-up, checked under SpecStartup.                  *)
(***************************************************************************)
\* the driver library did not load, or <device>_setup or <device>_startup
\* is missing, or setup returned nonzero, or start is absent or returned
\* nonzero
HardwareFailed ==
  \/ hw.dlopen = "failed"
  \/ hw.setup_symbol = "missing"
  \/ hw.startup_symbol = "missing"
  \/ \E r \in hw.setup_r : r # 0
  \/ hw.start_absent
  \/ \E r \in hw.start_r : r # 0

\* C10: when the hardware setup fails the process exits with status 66, and
\* at that exit no output socket is open, the status thread is not started
\* and no section thread (which creates the channels) exists; a missing
\* <device>_tune symbol alone is no failure: setup is called next, and the
\* process does not exit with 66 for it.
C10_HardwareFailureFatal ==
  /\ HardwareFailed =>
       /\ \/ proc = "running" /\ st_pc = "setup_hardware returned"
          \/ proc = "exited" /\ exit_code = 66
       /\ Output_fd = -1
       /\ Output_fd0 = -1
       /\ ~Status_thread
       /\ startup_threads = {}
       /\ Nchans = 0
  /\ (hw.tune_symbol = "missing" /\ ~HardwareFailed) =>
       /\ st_pc # "setup_hardware returned" => proc # "exited" \/ exit_code # 66
       /\ st_pc = "setup" => proc = "running"

\* <device>_tune is missing, setup succeeds, start returns nonzero: the
\* process has exited with 66
C10_Witness ==
  /\ proc = "exited"
  /\ exit_code = 66
  /\ hw.tune_symbol = "missing"
  /\ hw.setup_r = {0}
  /\ hw.start_r = {1}
  /\ Output_fd = -1

\* one of the two output_mcast calls has returned a negative descriptor
OutputSocketFailed ==
  \/ \E fd \in hw.output_mcast : fd < 0
  \/ \E fd \in hw.output_mcast0 : fd < 0

\* C11: when the creation of Output_fd or of Output_fd0 fails the process
\* exits with status 68, and at that exit the status thread is not started
\* and no process_section thread exists, so no channel has been created.
C11_OutputSocketFailureFatal ==
  OutputSocketFailed =>
    /\ proc = "exited"
    /\ exit_code = 68
    /\ ~Status_thread
    /\ startup_threads = {}
    /\ Nchans = 0

\* Output_fd was created, the creation of Output_fd0 failed, and the
\* process has exited with 68
C11_Witness ==
  /\ proc = "exited"
  /\ exit_code = 68
  /\ hw.output_mcast = {3}
  /\ hw.output_mcast0 = {-1}
  /\ Output_fd = 3
  /\ Output_fd0 = -1

----------------------------------------------------------------------------
(***************************************************************************)
(* A missing preset, checked under SpecTemplate.  tpl_pc = "done" is the   *)
(* point where process_section goes on to the frequency lists of the       *)
(* section and creates its channels.                                       *)
(***************************************************************************)
\* the section asks (itself, or through [global]) for a preset name that
\* the preset table does not hold
MissingPreset == SectionPreset # NULL /\ ~InPresetTable(SectionPreset)

\* the value of p in the first of the given sources that defines it
FirstOf(sources, p) ==
  LET defining == {i \in 1 .. Len(sources) : sources[i][p] # Unset}
      first == CHOOSE i \in defining : \A j \in defining : i <= j
  IN  sources[first][p]

----------------------------------------------------------------------------
(***************************************************************************)
(* Configuration errors, checked under SpecStartup.                        *)
(***************************************************************************)
\* [global] holds an unknown key, or an fft-plan-level that is none of
\* estimate, measure, patient, exhaustive, wisdom-only
ConfigError ==
  \/ global_cfg.unknown_key
  \/ /\ global_cfg.fft_plan_level # NULL
     /\ global_cfg.fft_plan_level \notin
          {"estimate", "Estimate", "measure", "patient", "exhaustive",
           "wisdom-only"}

\* C13: with an unknown key in [global], or an fft-plan-level outside the
\* five names, loadconfig reports the error and the startup ends once
\* [global] has been read: the hardware is not set up and no section thread
\* is started.
C13_ConfigErrorFatal ==
  ConfigError =>
    /\ st_pc \notin {"iniparser_load", "global"} =>
         /\ proc = "exited"
         /\ reported # {}
    /\ ~Frontend.setup
    /\ hw.dlopen = "none"
    /\ startup_threads = {}

\* fft-plan-level = fastest and no unknown key: nothing was reported, the
\* planning level is the default, the hardware is set up and loadconfig has
\* returned with section threads started
C13_Witness ==
  /\ global_cfg = [unknown_key |-> FALSE, fft_plan_level |-> "fastest"]
  /\ st_pc = "returned"
  /\ proc = "running"
  /\ reported = {}
  /\ FFTW_planning_level = "FFTW_PATIENT"
  /\ Frontend.setup
  /\ startup_threads # {}

----------------------------------------------------------------------------
(***************************************************************************)
(* The block sizes, checked under SpecStartup.                             *)
(***************************************************************************)
\* create_filter_input(&Frontend.in,Frontend.L,Frontend.M,...) was called
FilterCreated ==
  st_pc = "start" \/ hw.start_absent \/ hw.start_r # {}

\* C14: once create_filter_input has been called, and so when the front
\* end is started, L > 0 and M > 0, whatever the sample rate, the blocktime
\* and the overlap are.
C14_PositiveBlockSizes ==
  FilterCreated => (Frontend.L > 0 /\ Frontend.M > 0)

\* assertions are compiled in, overlap = 0: the filter was created and the
\* front end started with a negative M
C14_Witness ==
  /\ ~build.NDEBUG
  /\ Overlap = 0
  /\ hw.start_r = {0}
  /\ Frontend.L = 24000
  /\ Frontend.M = -23999

----------------------------------------------------------------------------
(***************************************************************************)
(* Properties of the filter sizes and of the notch list, checked under     *)
(* SpecFilter.                                                             *)
(***************************************************************************)
\* the block sizes are computed and the notch list is initialised
NotchesInitialised == st_pc = "start"

\* C15: for every sample rate, every block time that is not negative and
\* every overlap of 2 or more, L is samprate * Blocktime / 1000 rounded to
\* the nearest integer, M is floor(L / (Overlap - 1)) + 1, and the N that
\* the notch bins are computed with is L + M - 1, the N of the filter input.
C15_BlockSizes ==
  (NotchesInitialised /\ Overlap >= 2 /\ Blocktime >= 0) =>
    /\ 2 * abs(10000 * Frontend.L - Frontend.samprate * Blocktime) <= 10000
    /\ (Frontend.M - 1) * (Overlap - 1) <= Frontend.L
    /\ Frontend.L < Frontend.M * (Overlap - 1)
    /\ Frontend.N = Frontend.L + Frontend.M - 1
    /\ Frontend.N = Frontend.in_N

\* 1,200,000 Hz, 20 ms, overlap 5: L = 24000, M = 6001, N = 30000
C15_Witness ==
  /\ NotchesInitialised
  /\ Frontend.samprate = 1200000 /\ Blocktime = 200 /\ Overlap = 5
  /\ Frontend.L = 24000 /\ Frontend.M = 6001
  /\ Frontend.N = 30000 /\ Frontend.in_N = 30000

\* the entries of the notch array that hold what calloc left
Zeroed(k) == Frontend.notches[k] = [state |-> 0, bin |-> 0, alpha |-> 0]

ConfiguredSpurs == SelectSeq(Frontend.spurs, LAMBDA f : f # 0)

\* the bin compute_tuning gives for spur frequency f
SpurBin(f) ==
  compute_tuning(Frontend.N, Frontend.M, Frontend.samprate, Frontend.isreal, f).shift

\* C17: once the notch list is initialised, the k configured spurs have the
\* first k entries of the notch array, in the order of the list, each with
\* the bin that compute_tuning gives for its frequency, and entry k is the
\* DC entry with bin 0.
C17_EverySpurNotched ==
  NotchesInitialised =>
    /\ \A j \in 1..Len(ConfiguredSpurs) :
         Frontend.notches[j - 1].bin = SpurBin(ConfiguredSpurs[j])
    /\ Frontend.notches[Len(ConfiguredSpurs)].bin = 0

\* a 10 Hz spur, which is in bin 0 of 40 Hz bins, ends the list: the
\* 5000 Hz spur after it has no entry
C17_Witness ==
  /\ NotchesInitialised
  /\ Frontend.samprate = 1200000 /\ Frontend.N = 30000
  /\ Frontend.spurs[1] = 10 /\ Frontend.spurs[2] = 5000
  /\ SpurBin(5000) = 125
  /\ Frontend.written = {0}
  /\ \A k \in DOMAIN Frontend.notches : Frontend.notches[k].bin = 0

----------------------------------------------------------------------------
(***************************************************************************)
(* Properties of the idle timeout, checked under SpecIdle.                 *)
(***************************************************************************)
\* [global] of the configuration file has been read
GlobalRead ==
  /\ st_pc \notin {"iniparser_load", "global"}
  /\ "Can't load config file" \notin reported

----------------------------------------------------------------------------
(***************************************************************************)
(* Properties of the RTCP sender, checked under SpecRtcp.                  *)
(***************************************************************************)
\* the step is a pass of the loop of rtcp_send for channel c, from while(true)
\* to done:
RtcpPass(c) == rtcp_pc[c] = "loop" /\ rtcp_pc'[c] # "loop"

\* C19: in every pass of rtcp_send a failed send adds exactly 1 to the
\* channel's output.errors and a successful send leaves it as it is; with
\* SSRC 0 the pass sends nothing; every pass, failed or not, ends in the
\* sleep, from which the worker goes on with the next pass; nothing else
\* changes the counter.
C19_SendErrorsCounted ==
  [][\A c \in RtcpChannels :
       /\ RtcpPass(c) => rtcp_pc'[c] = "sleep"
       /\ (RtcpPass(c) /\ rtcp_last'[c] = "send failed") =>
            (errors'[c] = errors[c] + 1 /\ rtcp_ssrc[c] # Zero32)
       /\ (RtcpPass(c) /\ rtcp_last'[c] = "sent") =>
            (errors'[c] = errors[c] /\ rtcp_ssrc[c] # Zero32)
       /\ (RtcpPass(c) /\ rtcp_ssrc[c] = Zero32) =>
            (rtcp_last'[c] = "no ssrc" /\ errors'[c] = errors[c])
       /\ ~RtcpPass(c) => errors'[c] = errors[c]
       /\ (rtcp_pc[c] = "sleep" /\ rtcp_pc'[c] # "sleep") => rtcp_pc'[c] = "loop"
       /\ rtcp_pc'[c] \in {"idle", "loop", "sleep"}]_vars

\* chan1 has had a send fail, has slept and has then sent a report; chan2,
\* whose SSRC is 0, has sent nothing
C19_Witness ==
  /\ rtcp_ssrc["chan1"] # Zero32
  /\ errors["chan1"] = 1
  /\ rtcp_last["chan1"] = "sent"
  /\ rtcp_pc["chan1"] = "sleep"
  /\ rtcp_ssrc["chan2"] = Zero32
  /\ rtcp_last["chan2"] = "no ssrc"
  /\ errors["chan2"] = 0

----------------------------------------------------------------------------
(***************************************************************************)
(* The order of the calls made for a channel, checked under Spec.          *)
(***************************************************************************)
\* the calls process_section makes for a channel, in the order of the code
StepOrder == <<"create_chan", "copy", "restore", "set_freq", "start_demod">>

\* the sender threads that may follow, whichever of them are enabled
SenderOrders ==
  {<<>>, <<"sap_send">>, <<"rtcp_send">>, <<"sap_send", "rtcp_send">>}

\* the number of channels that have "start_demod" among their calls
StartedChannels ==
  Cardinality({k \in Slots : \E i \in 1..Len(hist.steps[k]) :
                               hist.steps[k][i] = "start_demod"})

RECURSIVE SumOver(_, _)
SumOver(f, S) ==
  IF S = {} THEN 0
  ELSE LET x == CHOOSE y \in S : TRUE IN f[x] + SumOver(f, S \ {x})

\* C20: the calls made for a channel are create_chan, template copy, SSRC
\* restore, set_freq and start_demod in this order, and the sender threads
\* are started only after start_demod; start_demod is called once for each
\* channel that create_chan returned and for nothing else: every call is for
\* a different channel, a thread between two frequency entries has started
\* as many channels as it has created, and an entry that was skipped or
\* whose probing failed adds to neither.
C20_StartOrder ==
  /\ \A k \in Slots :
       \/ \E n \in 0..Len(StepOrder) : hist.steps[k] = SubSeq(StepOrder, 1, n)
       \/ \E o \in SenderOrders : hist.steps[k] = StepOrder \o o
  /\ StartedChannels = SumOver(hist.started, Sections)
  /\ running = {k \in Slots : \E i \in 1..Len(hist.steps[k]) :
                                 hist.steps[k][i] = "start_demod"}
  /\ \A t \in Sections :
       /\ hist.started[t] <= hist.created[t]
       /\ hist.created[t] <= hist.started[t] + 1
       /\ pc[t] \in {"token", "done"} => hist.started[t] = hist.created[t]
       /\ hist.started[t] = nchans[t] + (IF pc[t] = "count" THEN 1 ELSE 0)

\* both sections are done: one has started a channel with both sender
\* threads after an entry that failed or was skipped, the other none
C20_Witness ==
  /\ AllDone
  /\ \E t \in Sections : hist.started[t] = 1 /\ hist.last[t] = "started"
  /\ \E t \in Sections : hist.started[t] = 0 /\ hist.last[t] \in {"skipped", "exhausted"}
  /\ \E k \in Slots : hist.steps[k] = StepOrder \o <<"sap_send", "rtcp_send">>

----------------------------------------------------------------------------
(***************************************************************************)
(* The value loadconfig returns, checked under Spec.                       *)
(***************************************************************************)
\* C21: once loadconfig has returned, the value it returned is the number
\* of channels the section threads have created and started, whatever the
\* interleaving of the threads (0 if no section started a channel), and
\* Configtable is freed only when every section thread is done.
C21_ReturnsChannelCount ==
  /\ returned # Unset =>
       /\ returned = SumOver(hist.started, Sections)
       /\ returned = Cardinality(running)
  /\ Configtable = NULL => AllDone

\* each of the two sections has started one channel and loadconfig has
\* returned 1
C21_Witness ==
  /\ AllDone
  /\ \A t \in Sections : hist.started[t] = 1 /\ nchans[t] = 1
  /\ Cardinality(running) = 2
  /\ Configtable = NULL
  /\ returned = 1

============================================================================
